---- MODULE Spec2Model ----
(***************************************************************************)
(* The notes browser (NotesPage) of the portfolio site: its React state,   *)
(* the browser history it writes to and restores from, and the            *)
(* asynchronous operations (note fetches, searches, restores) in flight.   *)
(*                                                                         *)
(* React semantics modelled: every handler's synchronous segment (up to    *)
(* its next await) is one atomic step whose setState calls are batched;    *)
(* an async handler keeps the values of the render in which it was         *)
(* created (its closure) for its whole life; a passive effect runs after   *)
(* the commit that changed one of its dependencies and before the next     *)
(* event is handled.                                                       *)
(***************************************************************************)
EXTENDS Integers, Sequences, FiniteSets, TLC

\* ------------------------------------------------------------- bounds
MaxEntries == 4      \* longest browser history the model lets grow
MaxStack == 1        \* longest in-memory note stack
MaxInFlight == 2     \* most asynchronous operations pending at once
MaxNavigations == 1  \* most user-started note fetches among them
MaxResults == 2      \* longest result list the search service answers with
MaxLines == 3        \* most lines of a note text handed to the renderer
MaxChars == 4        \* longest string handed to formatText

\* --------------------------------------------------- the vault (server data)
Null == "null"

NoteIds == {"root", "c1", "c2", "x2"}

Categories == {"Science"}

\* structure[category].books: the books of a category
BooksOf(category) ==
  IF category = "Science" THEN {"Sapiens", "Essays"} ELSE {}

\* bookData?.trees?.[0]?.id : the first root tree note of a book, if any
RootOf(category, book) ==
  IF category = "Science" /\ book = "Sapiens" THEN "root" ELSE Null

NoteTitle(id) ==
  CASE id = "root" -> "Sapiens"
    [] id = "c1" -> "Chapter 1"
    [] id = "c2" -> "Chapter 2"
    [] id = "x2" -> "Chapter 2"
    [] OTHER -> Null

\* NoteMetadata.book: x2 is a loose note of the book without a tree
NoteBook(id) == IF id = "x2" THEN "Essays" ELSE "Sapiens"

\* A Note snapshot as returned by GET /api/notes/{id}
NoteOf(id) ==
  [id |-> id, title |-> NoteTitle(id), category |-> "Science", book |-> NoteBook(id)]

NullNote == [id |-> Null, title |-> Null, category |-> Null, book |-> Null]

\* currentNote.navigation.children
ChildrenOf(id) ==
  CASE id = "root" -> {"c1"}
    [] id = "c1" -> {"c2"}
    [] OTHER -> {}

\* the [[targets]] in a note's content
LinksOf(id) ==
  CASE id = "root" -> {"chapter 2"}
    [] id = "c2" -> {"Sapiens"}
    [] OTHER -> {}

\* String.prototype.toLowerCase on the titles and link targets of the vault
ToLowerCase(s) ==
  CASE s = "Sapiens" -> "sapiens"
    [] s = "Chapter 1" -> "chapter 1"
    [] s = "Chapter 2" -> "chapter 2"
    [] OTHER -> s

\* result lists the search service may answer with: ids of NoteMetadata, in
\* the service's relevance order, no note twice
SearchResponses ==
  {r \in UNION {[1..n -> NoteIds] : n \in 0..MaxResults} :
     \A i, j \in 1..Len(r) : i # j => r[i] # r[j]}

\* values of the search box: character sequences of length 0 to 3
Queries == {<< >>, <<"c">>, <<"c", "h">>, <<"c", "h", "a">>}

\* ------------------------------------------------------------- state
VARIABLES
  mounted,            \* the NotesPage component is mounted
  entries,            \* window.history: the session history entries
  idx,                \* window.history: index of the current entry
  urlHasParam,        \* searchParams.has("note") || searchParams.has("book")
  loading,            \* useState(true): vault structure not yet loaded
  error,              \* useState(null): structure fetch failed
  noteHistory,        \* useState<Note[]>([])
  viewLevel,          \* useState<ViewLevel>("categories")
  selectedCategory,   \* useState<string|null>(null)
  selectedBook,       \* useState<string|null>(null)
  currentNote,        \* useState<Note|null>(null)
  noteLoading,        \* useState(false)
  searchQuery,        \* useState("")
  searchResults,      \* useState<NoteMetadata[]>([])
  isSearching,        \* useState(false)
  isRestoringState,   \* useState(false)
  searchTimer,        \* the pending debounce timers of the search effect
  ops,                \* asynchronous operations in flight
  effects,            \* passive effects queued by the last commit
  lastEvent,          \* the last step and what it did (observation only)
  trail,              \* observation only: the states in effect before each
                      \* of the latest consecutive note-to-note navigations
                      \* that platform back has not yet undone
  content,            \* NoteContent's prop: the text handed to the renderer
  rendered            \* what the renderer returned for it

memVars == <<noteHistory, viewLevel, selectedCategory, selectedBook,
             currentNote, noteLoading, isRestoringState>>
searchVars == <<searchQuery, searchResults, isSearching, searchTimer>>
histVars == <<entries, idx>>
vars == <<mounted, entries, idx, urlHasParam, loading, error, noteHistory,
          viewLevel, selectedCategory, selectedBook, currentNote, noteLoading,
          searchQuery, searchResults, isSearching, isRestoringState,
          searchTimer, ops, effects, lastEvent, trail, content, rendered>>
renderVars == <<content, rendered>>
pageVars == <<mounted, entries, idx, urlHasParam, loading, error, noteHistory,
              viewLevel, selectedCategory, selectedBook, currentNote,
              noteLoading, searchQuery, searchResults, isSearching,
              isRestoringState, searchTimer, ops, effects, lastEvent, trail>>

\* nothing has been rendered
NotRendered == [out |-> << >>, passes |-> 0]

\* ------------------------------------------------- NavigationState
NavigationState(vl, cat, book, noteId, ids) ==
  [viewLevel |-> vl, selectedCategory |-> cat, selectedBook |-> book,
   noteId |-> noteId, noteHistoryIds |-> ids]

\* the initialState object of the mount effect
initialState == NavigationState("categories", Null, Null, Null, << >>)

\* newHistory.map(n => n.id)
Ids(notes) == [i \in 1..Len(notes) |-> notes[i].id]

\* the NavigationState the in-memory fields amount to
MemState ==
  NavigationState(viewLevel, selectedCategory, selectedBook,
                  currentNote.id, Ids(noteHistory))

\* a session history entry: another page's entry, the notes URL's entry
\* before the page wrote to it, or an entry carrying {notesNav: state}
OutsideEntry == [kind |-> "outside", notesNav |-> initialState, pushed |-> FALSE]
FreshEntry == [kind |-> "fresh", notesNav |-> initialState, pushed |-> FALSE]
NavEntry(state, pushed) == [kind |-> "nav", notesNav |-> state, pushed |-> pushed]


\* ------------------------------------------------ operations in flight
\* One record shape for every asynchronous operation; a field an operation
\* does not use keeps its default.  guard is the isRestoringState value its
\* closure's pushNavigationState was created with.  Observation only:
\* before, results (the result list a link's navigation was resolved from)
\* and late (a request sent after this one has already resolved).
NoOp ==
  [kind |-> "none", guard |-> FALSE, target |-> Null, link |-> Null,
   cat |-> Null, book |-> Null, cur |-> NullNote, hist |-> << >>,
   state |-> initialState, phase |-> "none", pending |-> {}, query |-> << >>,
   before |-> initialState, results |-> << >>, late |-> FALSE]

\* ------------------------------------------------ observation
\* lastEvent: name is the step taken, cause the event whose commit the step
\* belongs to (an effect keeps the cause of the commit that queued it),
\* state the NavigationState the step built or restored, pushed whether it
\* executed pushState, before the state in effect when the navigation it
\* completes began, phase the await a failed restore was at, expect/check
\* the state a restore is expected to bring back (set when the restore
\* undoes the latest navigation of trail), op the operation the step
\* started or completed, results the response a search step received.
Event(name) ==
  [name |-> name, cause |-> name, state |-> initialState, pushed |-> FALSE,
   before |-> initialState, phase |-> "none", expect |-> initialState,
   check |-> FALSE, op |-> NoOp, results |-> << >>, cleared |-> FALSE]

\* an effect ran after the commit of the last event
Effect(name) ==
  /\ lastEvent' = [lastEvent EXCEPT !.name = name, !.pushed = FALSE]
  /\ UNCHANGED renderVars
  /\ UNCHANGED trail

\* a step that is no part of a navigate-then-back sequence
Did(name) ==
  /\ lastEvent' = Event(name)
  /\ trail' = << >>
  /\ UNCHANGED renderVars

RemoveAt(s, i) == SubSeq(s, 1, i - 1) \o SubSeq(s, i + 1, Len(s))

\* the search request at position i completes: it leaves the operations in
\* flight, and the search requests sent before it are now late
Overtake(s, i) ==
  [j \in 1..(Len(s) - 1) |->
     IF j >= i THEN s[j + 1]
     ELSE IF s[j].kind = "search" THEN [s[j] EXCEPT !.late = TRUE]
     ELSE s[j]]

\* operations that will call pushNavigationState with an open guard
Pushers ==
  {i \in 1..Len(ops) : ops[i].kind \in {"book", "nav", "wiki", "result"}
                        /\ ~ops[i].guard}

\* room in the bounded history for one more push
RoomToPush == idx + Cardinality(Pushers) < MaxEntries
\* moving to entry j leaves room for the pushes still to come
RoomAt(j) == j + Cardinality(Pushers) <= MaxEntries
RoomInFlight == Len(ops) < MaxInFlight
\* room for one more note fetch started by a click
RoomToFetch ==
  /\ RoomInFlight
  /\ Cardinality({i \in 1..Len(ops) :
                    ops[i].kind \in {"book", "nav", "wiki", "result"}})
       < MaxNavigations

\* no timer pending; a pending timer is [query |-> the searchQuery of the
\* render whose effect set it]
NoTimer == {}

\* effects whose dependencies a commit changed: the reset effect depends on
\* [searchParams, isRestoringState], the search effect on [searchQuery]
Queued(restoringAfter, queryAfter) ==
  (IF restoringAfter # isRestoringState THEN {"reset"} ELSE {})
    \cup (IF queryAfter # searchQuery THEN {"search"} ELSE {})

\* the page is mounted and idle: an event handler may run
Ready == mounted /\ effects = {}

\* {!loading && !error && searchQuery.length < 2 && ...}
MainVisible == ~loading /\ ~error /\ Len(searchQuery) < 2

\* structure as the component holds it: {} until the fetch has succeeded
StructureRoot(category, book) ==
  IF loading \/ error THEN Null ELSE RootOf(category, book)

\* ------------------------------------------------ window.history
pushState(state) ==
  /\ entries' = Append(SubSeq(entries, 1, idx), NavEntry(state, TRUE))
  /\ idx' = idx + 1

replaceState(state) ==
  /\ entries' = [entries EXCEPT ![idx] = NavEntry(state, FALSE)]
  /\ idx' = idx

pushNavigationState(restoring, state, replace) ==
  IF restoring THEN UNCHANGED <<entries, idx>>
  ELSE IF replace THEN replaceState(state)
  ELSE pushState(state)

\* ------------------------------------------------ initial states
\* the document at the notes URL has just been loaded and nothing has run:
\* hist is the tab's session history, whose last entry is the document's,
\* and url tells whether the URL carries ?note= or ?book=
Opened(hist, url) ==
  /\ mounted = FALSE
  /\ entries = hist
  /\ idx = Len(hist)
  /\ urlHasParam = url
  /\ loading = TRUE
  /\ error = FALSE
  /\ noteHistory = << >>
  /\ viewLevel = "categories"
  /\ selectedCategory = Null
  /\ selectedBook = Null
  /\ currentNote = NullNote
  /\ noteLoading = FALSE
  /\ searchQuery = << >>
  /\ searchResults = << >>
  /\ isSearching = FALSE
  /\ isRestoringState = FALSE
  /\ searchTimer = NoTimer
  /\ ops = << >>
  /\ effects = {}
  /\ lastEvent = Event("init")
  /\ trail = << >>
  /\ content = << >>
  /\ rendered = NotRendered

\* /notes opened in a new tab
Init == Opened(<<FreshEntry>>, FALSE)

\* the useState initial values of a fresh component instance
FreshComponent ==
  /\ loading' = TRUE
  /\ error' = FALSE
  /\ noteHistory' = << >>
  /\ viewLevel' = "categories"
  /\ selectedCategory' = Null
  /\ selectedBook' = Null
  /\ currentNote' = NullNote
  /\ noteLoading' = FALSE
  /\ searchQuery' = << >>
  /\ searchResults' = << >>
  /\ isSearching' = FALSE
  /\ isRestoringState' = FALSE
  /\ searchTimer' = NoTimer
  /\ ops' = << >>
  /\ effects' = {}

\* a mount effect that calls pushState where the code calls replaceState
MountPushes ==
  /\ ~mounted
  /\ entries[idx].kind # "outside"
  /\ mounted' = TRUE
  /\ pushState(initialState)
  /\ FreshComponent
  /\ Did("mount")
  /\ UNCHANGED urlHasParam

\* Mount: the effects with [] dependencies run; the popstate listener is
\* registered, the current entry is overwritten by replaceState and the
\* vault structure fetch is issued (loading stays true until it resolves).
Mount ==
  /\ ~mounted
  /\ entries[idx].kind # "outside"
  /\ mounted' = TRUE
  /\ replaceState(initialState)
  /\ FreshComponent
  /\ Did("mount")
  /\ UNCHANGED urlHasParam

\* fetchVaultStructure().then(...)
StructureLoaded ==
  /\ Ready /\ loading
  /\ loading' = FALSE
  /\ Did("structure")
  /\ UNCHANGED <<mounted, entries, idx, urlHasParam, error, memVars,
                 searchVars, ops, effects>>

\* fetchVaultStructure().catch(...)
StructureFailed ==
  /\ Ready /\ loading
  /\ loading' = FALSE
  /\ error' = TRUE
  /\ Did("structureFailed")
  /\ UNCHANGED <<mounted, entries, idx, urlHasParam, memVars, searchVars,
                 ops, effects>>

\* Header: clicking "Notes" while on the notes page assigns
\* window.location.href = "/notes": the document is torn down and loaded
\* again.  Assigning the document's own URL replaces the current entry;
\* another URL (the page was opened with ?note= or ?book=) adds an entry.
handleNavClick ==
  /\ Ready
  /\ IF urlHasParam
       THEN /\ idx < MaxEntries
            /\ entries' = Append(SubSeq(entries, 1, idx), FreshEntry)
            /\ idx' = idx + 1
       ELSE /\ entries' = [entries EXCEPT ![idx] = FreshEntry]
            /\ idx' = idx
  /\ urlHasParam' = FALSE
  /\ mounted' = FALSE
  /\ FreshComponent
  /\ Did("reload")


\* Header: a <Link> to another page of the site is clicked: the router
\* pushes that page's entry and the notes page unmounts (taken when no
\* operation of the page is in flight)
HeaderLinkClick ==
  /\ Ready
  /\ ops = << >>
  /\ idx < MaxEntries
  /\ entries' = Append(SubSeq(entries, 1, idx), OutsideEntry)
  /\ idx' = idx + 1
  /\ mounted' = FALSE
  /\ FreshComponent
  /\ Did("leave")
  /\ UNCHANGED urlHasParam

\* ------------------------------------------------ synchronous handlers
\* the body of resetToCategories (also run by the reset effect)
ResetFields ==
  /\ viewLevel' = "categories"
  /\ selectedCategory' = Null
  /\ selectedBook' = Null
  /\ currentNote' = NullNote
  /\ noteHistory' = << >>
  /\ searchQuery' = << >>

\* variant: the reset also writes the categories state into the current
\* history entry
resetToCategoriesReplaces ==
  /\ Ready
  /\ ResetFields
  /\ replaceState(initialState)
  /\ effects' = Queued(isRestoringState, << >>)
  /\ Did("reset")
  /\ UNCHANGED <<mounted, urlHasParam, loading, error,
                 noteLoading, isRestoringState, searchResults, isSearching,
                 searchTimer, ops>>

\* breadcrumb button "All Categories": onClick={resetToCategories}
resetToCategories ==
  /\ Ready
  /\ ResetFields
  /\ effects' = Queued(isRestoringState, << >>)
  /\ Did("reset")
  /\ UNCHANGED <<mounted, entries, idx, urlHasParam, loading, error,
                 noteLoading, isRestoringState, searchResults, isSearching,
                 searchTimer, ops>>

\* breadcrumb button showing the selected category
BreadcrumbCategoryClick ==
  /\ Ready
  /\ selectedCategory # Null
  /\ viewLevel' = "books"
  /\ selectedBook' = Null
  /\ currentNote' = NullNote
  /\ noteHistory' = << >>
  /\ Did("breadcrumbCategory")
  /\ UNCHANGED <<mounted, entries, idx, urlHasParam, loading, error,
                 selectedCategory, noteLoading, isRestoringState, searchVars,
                 ops, effects>>

\* variant: the button clears the category and leaves viewLevel as it is
BackToCategoriesKeepsLevel ==
  /\ Ready /\ MainVisible
  /\ viewLevel = "books" /\ selectedCategory # Null
  /\ selectedCategory' = Null
  /\ Did("backToCategories")
  /\ UNCHANGED <<mounted, entries, idx, urlHasParam, loading, error,
                 noteHistory, selectedBook, currentNote, noteLoading,
                 isRestoringState, searchVars, ops, effects, viewLevel>>

\* "Back to categories" button of the books grid
BackToCategoriesClick ==
  /\ Ready /\ MainVisible
  /\ viewLevel = "books" /\ selectedCategory # Null
  /\ viewLevel' = "categories"
  /\ selectedCategory' = Null
  /\ Did("backToCategories")
  /\ UNCHANGED <<mounted, entries, idx, urlHasParam, loading, error,
                 noteHistory, selectedBook, currentNote, noteLoading,
                 isRestoringState, searchVars, ops, effects>>

handleCategoryClick(category) ==
  /\ Ready /\ MainVisible
  /\ viewLevel = "categories"
  /\ isRestoringState \/ RoomToPush
  /\ selectedCategory' = category
  /\ viewLevel' = "books"
  /\ selectedBook' = Null
  /\ currentNote' = NullNote
  /\ noteHistory' = << >>
  /\ pushNavigationState(isRestoringState,
       NavigationState("books", category, Null, Null, << >>), FALSE)
  /\ lastEvent' = [Event("category") EXCEPT
                     !.state = NavigationState("books", category, Null, Null, << >>),
                     !.pushed = ~isRestoringState]
  /\ UNCHANGED renderVars
  /\ trail' = << >>
  /\ UNCHANGED <<mounted, urlHasParam, loading, error, noteLoading,
                 isRestoringState, searchVars, ops, effects>>

\* ------------------------------------------------ handleBookClick
\* a book button is on screen: in the books grid, or as the breadcrumb's
\* selected-book button
BookButton(book) ==
  \/ book # Null /\ book = selectedBook
  \/ /\ MainVisible /\ viewLevel = "books" /\ selectedCategory # Null
     /\ book \in BooksOf(selectedCategory)

\* the book has no root tree note (or the structure is not loaded): the
\* handler runs to its end without awaiting, and pushes nothing
BookClickNoRoot(book) ==
  /\ Ready /\ BookButton(book)
  /\ StructureRoot(selectedCategory, book) = Null
  /\ selectedBook' = book
  /\ viewLevel' = "note"
  /\ noteHistory' = << >>
  /\ currentNote' = NullNote
  /\ noteLoading' = FALSE
  /\ Did("bookNoRoot")
  /\ UNCHANGED <<mounted, entries, idx, urlHasParam, loading, error,
                 selectedCategory, isRestoringState, searchVars, ops, effects>>

\* the book has a root tree note: up to `await fetchNote(...)`
BookClickFetch(book) ==
  /\ Ready /\ BookButton(book)
  /\ StructureRoot(selectedCategory, book) # Null
  /\ RoomToFetch
  /\ isRestoringState \/ RoomToPush
  /\ selectedBook' = book
  /\ viewLevel' = "note"
  /\ noteLoading' = TRUE
  /\ noteHistory' = << >>
  /\ ops' = Append(ops, [NoOp EXCEPT !.kind = "book",
                                     !.guard = isRestoringState,
                                     !.target = StructureRoot(selectedCategory, book),
                                     !.cat = selectedCategory,
                                     !.book = book])
  /\ Did("book")
  /\ UNCHANGED <<mounted, entries, idx, urlHasParam, loading, error,
                 selectedCategory, currentNote, isRestoringState, searchVars,
                 effects>>

handleBookClick(book) == BookClickNoRoot(book) \/ BookClickFetch(book)

\* the root note's fetch resolved
BookFetched(i) ==
  /\ Ready
  /\ ops[i].kind = "book"
  /\ currentNote' = NoteOf(ops[i].target)
  /\ pushNavigationState(ops[i].guard,
       NavigationState("note", ops[i].cat, ops[i].book, ops[i].target, << >>),
       FALSE)
  /\ noteLoading' = FALSE
  /\ ops' = RemoveAt(ops, i)
  /\ lastEvent' = [Event("bookFetched") EXCEPT
                     !.state = NavigationState("note", ops[i].cat, ops[i].book,
                                               ops[i].target, << >>),
                     !.pushed = ~ops[i].guard]
  /\ UNCHANGED renderVars
  /\ trail' = << >>
  /\ UNCHANGED <<mounted, urlHasParam, loading, error, noteHistory, viewLevel,
                 selectedCategory, selectedBook, isRestoringState, searchVars,
                 effects>>

\* the root note's fetch rejected: catch, finally
BookFetchFailed(i) ==
  /\ Ready
  /\ ops[i].kind = "book"
  /\ currentNote' = NullNote
  /\ noteLoading' = FALSE
  /\ ops' = RemoveAt(ops, i)
  /\ Did("bookFetchFailed")
  /\ UNCHANGED <<mounted, entries, idx, urlHasParam, loading, error,
                 noteHistory, viewLevel, selectedCategory, selectedBook,
                 isRestoringState, searchVars, effects>>

\* ------------------------------------------------ navigateToNote
\* const newHistory = currentNote ? [...noteHistory, currentNote] : noteHistory
NewHistory(cur, hist) == IF cur # NullNote THEN Append(hist, cur) ELSE hist

\* navigateToNote up to `await fetchNote(noteId)`, run with the values
\* (cur, hist, cat, book, guard) of the closure it was created in
navigateToNote(noteId, cur, hist, cat, book, guard, rest) ==
  /\ noteLoading' = TRUE
  /\ noteHistory' = IF cur # NullNote THEN NewHistory(cur, hist) ELSE noteHistory
  /\ ops' = Append(rest, [NoOp EXCEPT !.kind = "nav",
                                      !.guard = guard,
                                      !.target = noteId,
                                      !.cat = cat,
                                      !.book = book,
                                      !.hist = NewHistory(cur, hist),
                                      !.before = MemState])

\* the note card with its links and children is on screen
NoteShown ==
  /\ MainVisible /\ viewLevel = "note"
  /\ ~noteLoading /\ currentNote # NullNote

\* a "Continue Reading" child button: onClick={() => navigateToNote(child.id)}
ChildClick(child) ==
  /\ Ready /\ NoteShown
  /\ child \in ChildrenOf(currentNote.id)
  /\ RoomToFetch
  /\ isRestoringState \/ RoomToPush
  /\ Len(noteHistory) < MaxStack
  /\ navigateToNote(child, currentNote, noteHistory, selectedCategory,
                    selectedBook, isRestoringState, ops)
  /\ lastEvent' = Event("navigate")
  /\ UNCHANGED renderVars
  /\ trail' = IF ops = << >> /\ lastEvent.cause # "restored"
                THEN trail ELSE << >>
  /\ UNCHANGED <<mounted, entries, idx, urlHasParam, loading, error,
                 viewLevel, selectedCategory, selectedBook, currentNote,
                 isRestoringState, searchVars, effects>>

\* navigateToNote's fetch resolved
NoteFetched(i) ==
  /\ Ready
  /\ ops[i].kind = "nav"
  /\ currentNote' = NoteOf(ops[i].target)
  /\ pushNavigationState(ops[i].guard,
       NavigationState("note", ops[i].cat, ops[i].book, ops[i].target,
                       Ids(ops[i].hist)),
       FALSE)
  /\ noteLoading' = FALSE
  /\ ops' = RemoveAt(ops, i)
  /\ lastEvent' = [Event("noteFetched") EXCEPT
                     !.state = NavigationState("note", ops[i].cat, ops[i].book,
                                               ops[i].target, Ids(ops[i].hist)),
                     !.pushed = ~ops[i].guard,
                     !.before = ops[i].before]
  /\ UNCHANGED renderVars
  /\ trail' = IF ~ops[i].guard /\ Len(ops) = 1
                THEN Append(trail, ops[i].before) ELSE << >>
  /\ UNCHANGED <<mounted, urlHasParam, loading, error, noteHistory, viewLevel,
                 selectedCategory, selectedBook, isRestoringState, searchVars,
                 effects>>

\* navigateToNote's fetch rejected: catch (log only), finally
NoteFetchFailed(i) ==
  /\ Ready
  /\ ops[i].kind = "nav"
  /\ noteLoading' = FALSE
  /\ ops' = RemoveAt(ops, i)
  /\ Did("noteFetchFailed")
  /\ UNCHANGED <<mounted, entries, idx, urlHasParam, loading, error,
                 noteHistory, viewLevel, selectedCategory, selectedBook,
                 currentNote, isRestoringState, searchVars, effects>>


\* ------------------------------------------------ handleWikiLinkClick
\* NoteMetadata of a search response (a list of ids in relevance order)
Metadata(response) == [i \in 1..Len(response) |-> NoteOf(response[i])]

\* Array.prototype.find, given the indices of the elements that satisfy
\* the predicate: the index of the first of them, 0 if there is none
Find(matching) ==
  IF matching = {} THEN 0
  ELSE CHOOSE i \in matching : \A j \in matching : i <= j

\* variant: the book of the current note is not consulted
exactMatchAnyBook(results, linkText, cur) ==
  LET sameTitle == {i \in 1..Len(results) :
                      ToLowerCase(results[i].title) = ToLowerCase(linkText)}
  IN IF Find(sameTitle) # 0 THEN results[Find(sameTitle)]
     ELSE results[1]

\* results.find(same title and same book) || results.find(same title)
\*   || results[0]
exactMatch(results, linkText, cur) ==
  LET sameTitle == {i \in 1..Len(results) :
                      ToLowerCase(results[i].title) = ToLowerCase(linkText)}
      sameBook == {i \in sameTitle : results[i].book = cur.book}
  IN IF Find(sameBook) # 0 THEN results[Find(sameBook)]
     ELSE IF Find(sameTitle) # 0 THEN results[Find(sameTitle)]
     ELSE results[1]

\* a [[link]] of the shown note is clicked: up to `await searchNotes(linkText)`
handleWikiLinkClick(linkText) ==
  /\ Ready /\ NoteShown
  /\ linkText \in LinksOf(currentNote.id)
  /\ RoomToFetch
  /\ isRestoringState \/ RoomToPush
  /\ Len(noteHistory) < MaxStack
  /\ ops' = Append(ops, [NoOp EXCEPT !.kind = "wiki",
                                     !.guard = isRestoringState,
                                     !.link = linkText,
                                     !.cur = currentNote,
                                     !.hist = noteHistory,
                                     !.cat = selectedCategory,
                                     !.book = selectedBook])
  /\ lastEvent' = Event("wikiClick")
  /\ UNCHANGED renderVars
  /\ trail' = IF ops = << >> /\ lastEvent.cause # "restored"
                THEN trail ELSE << >>
  /\ UNCHANGED <<mounted, entries, idx, urlHasParam, loading, error, memVars,
                 searchVars, effects>>

\* the link's search resolved with results: navigateToNote(exactMatch.id)
\* runs in the closure of the click
WikiSearchFound(i, response) ==
  /\ Ready
  /\ ops[i].kind = "wiki"
  /\ Len(response) > 0
  /\ navigateToNote(exactMatch(Metadata(response), ops[i].link, ops[i].cur).id,
                    ops[i].cur, ops[i].hist, ops[i].cat, ops[i].book,
                    ops[i].guard, RemoveAt(ops, i))
  /\ lastEvent' = [Event("navigate") EXCEPT
                     !.op = ops[i], !.results = Metadata(response)]
  /\ UNCHANGED renderVars
  /\ trail' = IF Len(ops) = 1 THEN trail ELSE << >>
  /\ UNCHANGED <<mounted, entries, idx, urlHasParam, loading, error,
                 viewLevel, selectedCategory, selectedBook, currentNote,
                 isRestoringState, searchVars, effects>>

\* variant: a link without a target leaves the note
WikiSearchEmptyClears(i) ==
  /\ Ready
  /\ ops[i].kind = "wiki"
  /\ ops' = RemoveAt(ops, i)
  /\ currentNote' = NullNote
  /\ lastEvent' = [Event("wikiNoResult") EXCEPT !.op = ops[i]]
  /\ UNCHANGED renderVars
  /\ trail' = << >>
  /\ UNCHANGED <<mounted, entries, idx, urlHasParam, loading, error, noteHistory,
                 viewLevel, selectedCategory, selectedBook, noteLoading,
                 isRestoringState, searchVars, effects>>

\* the link's search resolved with no result, or rejected: nothing happens
WikiSearchEmpty(i) ==
  /\ Ready
  /\ ops[i].kind = "wiki"
  /\ ops' = RemoveAt(ops, i)
  /\ lastEvent' = [Event("wikiNoResult") EXCEPT !.op = ops[i]]
  /\ UNCHANGED renderVars
  /\ trail' = << >>
  /\ UNCHANGED <<mounted, entries, idx, urlHasParam, loading, error, memVars,
                 searchVars, effects>>

\* ------------------------------------------------ search box
\* <input onChange={(e) => setSearchQuery(e.target.value)}>
SetSearchQuery(q) ==
  /\ Ready
  /\ q # searchQuery
  /\ searchQuery' = q
  /\ effects' = Queued(isRestoringState, q)
  /\ Did("type")
  /\ UNCHANGED <<mounted, entries, idx, urlHasParam, loading, error,
                 noteHistory, viewLevel, selectedCategory, selectedBook,
                 currentNote, noteLoading, isRestoringState, searchResults,
                 isSearching, searchTimer, ops>>

\* an effect run that returns no working cleanup: the timers of earlier
\* runs all stay pending
CleanupNothing(timers) == {[t EXCEPT !.latest = FALSE] : t \in timers}

\* return () => clearTimeout(timeout): the cleanup of the previous run of
\* the search effect clears the timer that run set (latest); what is left
\* are timers of runs before it
Cleanup(timers) == {t \in timers : ~t.latest}

\* variant: a single character is already searched for
SearchEffectFromOne ==
  /\ mounted
  /\ effects = {"search"}
  /\ IF Len(searchQuery) < 1
       THEN /\ searchResults' = << >>
            /\ isSearching' = FALSE
            /\ searchTimer' = Cleanup(searchTimer)
       ELSE /\ searchTimer' = Cleanup(searchTimer)
                                \cup {[query |-> searchQuery, latest |-> TRUE]}
            /\ UNCHANGED <<searchResults, isSearching>>
  /\ effects' = {}
  /\ lastEvent' = [lastEvent EXCEPT !.name = "searchEffect", !.pushed = FALSE,
                                    !.cleared = \E t \in searchTimer : t.latest]
  /\ UNCHANGED renderVars
  /\ UNCHANGED trail
  /\ UNCHANGED <<mounted, entries, idx, urlHasParam, loading, error, memVars,
                 searchQuery, ops>>

\* the search effect, dependencies [searchQuery]: the previous run's cleanup
\* clears its timer, then the body runs.  It runs after the reset effect,
\* which is declared before it.
SearchEffect ==
  /\ mounted
  /\ effects = {"search"}
  /\ IF Len(searchQuery) < 2
       THEN /\ searchResults' = << >>
            /\ isSearching' = FALSE
            /\ searchTimer' = Cleanup(searchTimer)
       ELSE /\ searchTimer' = Cleanup(searchTimer)
                                \cup {[query |-> searchQuery, latest |-> TRUE]}
            /\ UNCHANGED <<searchResults, isSearching>>
  /\ effects' = {}
  /\ lastEvent' = [lastEvent EXCEPT !.name = "searchEffect", !.pushed = FALSE,
                                    !.cleared = \E t \in searchTimer : t.latest]
  /\ UNCHANGED renderVars
  /\ UNCHANGED trail
  /\ UNCHANGED <<mounted, entries, idx, urlHasParam, loading, error, memVars,
                 searchQuery, ops>>

\* the 300 ms timer fires: up to `await searchNotes(searchQuery)`
SearchTimerFired(t) ==
  /\ Ready
  /\ t \in searchTimer
  /\ RoomInFlight
  /\ isSearching' = TRUE
  /\ searchTimer' = searchTimer \ {t}
  /\ ops' = Append(ops, [NoOp EXCEPT !.kind = "search", !.query = t.query])
  /\ lastEvent' = [Event("searchSent") EXCEPT
                     !.op = [NoOp EXCEPT !.kind = "search", !.query = t.query]]
  /\ UNCHANGED renderVars
  /\ trail' = << >>
  /\ UNCHANGED <<mounted, entries, idx, urlHasParam, loading, error, memVars,
                 searchQuery, searchResults, effects>>

\* variant: the answer of a request is dropped when a later one was sent
SearchResolvedLatestOnly(i, response) ==
  /\ Ready
  /\ ops[i].kind = "search"
  /\ searchResults' =
       IF ops[i].late \/ \E j \in (i + 1)..Len(ops) : ops[j].kind = "search"
         THEN searchResults ELSE Metadata(response)
  /\ isSearching' = FALSE
  /\ ops' = Overtake(ops, i)
  /\ lastEvent' = [Event("searchResolved") EXCEPT
                     !.op = ops[i], !.results = Metadata(response)]
  /\ UNCHANGED renderVars
  /\ trail' = << >>
  /\ UNCHANGED <<mounted, entries, idx, urlHasParam, loading, error, memVars,
                 searchQuery, searchTimer, effects>>

\* the search resolved
SearchResolved(i, response) ==
  /\ Ready
  /\ ops[i].kind = "search"
  /\ searchResults' = Metadata(response)
  /\ isSearching' = FALSE
  /\ ops' = Overtake(ops, i)
  /\ lastEvent' = [Event("searchResolved") EXCEPT
                     !.op = ops[i], !.results = Metadata(response)]
  /\ UNCHANGED renderVars
  /\ trail' = << >>
  /\ UNCHANGED <<mounted, entries, idx, urlHasParam, loading, error, memVars,
                 searchQuery, searchTimer, effects>>

\* the search rejected: catch, finally
SearchRejected(i) ==
  /\ Ready
  /\ ops[i].kind = "search"
  /\ searchResults' = << >>
  /\ isSearching' = FALSE
  /\ ops' = Overtake(ops, i)
  /\ lastEvent' = [Event("searchRejected") EXCEPT !.op = ops[i]]
  /\ UNCHANGED renderVars
  /\ trail' = << >>
  /\ UNCHANGED <<mounted, entries, idx, urlHasParam, loading, error, memVars,
                 searchQuery, searchTimer, effects>>

\* a search result card is clicked: up to `await fetchNote(note.id)`
SearchResultClick(k) ==
  /\ Ready
  /\ Len(searchQuery) >= 2
  /\ k \in 1..Len(searchResults)
  /\ RoomToFetch
  /\ isRestoringState \/ RoomToPush
  /\ selectedCategory' = searchResults[k].category
  /\ selectedBook' = searchResults[k].book
  /\ viewLevel' = "note"
  /\ noteHistory' = << >>
  /\ noteLoading' = TRUE
  /\ ops' = Append(ops, [NoOp EXCEPT !.kind = "result",
                                     !.guard = isRestoringState,
                                     !.target = searchResults[k].id,
                                     !.cat = searchResults[k].category,
                                     !.book = searchResults[k].book])
  /\ lastEvent' = [Event("resultClick") EXCEPT !.before = MemState]
  /\ UNCHANGED renderVars
  /\ trail' = << >>
  /\ UNCHANGED <<mounted, entries, idx, urlHasParam, loading, error,
                 currentNote, isRestoringState, searchVars, effects>>

\* the selected result's fetch resolved
ResultFetched(i) ==
  /\ Ready
  /\ ops[i].kind = "result"
  /\ currentNote' = NoteOf(ops[i].target)
  /\ noteLoading' = FALSE
  /\ searchQuery' = << >>
  /\ pushNavigationState(ops[i].guard,
       NavigationState("note", ops[i].cat, ops[i].book, ops[i].target, << >>),
       FALSE)
  /\ ops' = RemoveAt(ops, i)
  /\ effects' = Queued(isRestoringState, << >>)
  /\ lastEvent' = [Event("resultFetched") EXCEPT
                     !.state = NavigationState("note", ops[i].cat, ops[i].book,
                                               ops[i].target, << >>),
                     !.pushed = ~ops[i].guard,
                     !.op = ops[i]]
  /\ UNCHANGED renderVars
  /\ trail' = << >>
  /\ UNCHANGED <<mounted, urlHasParam, loading, error, noteHistory, viewLevel,
                 selectedCategory, selectedBook, isRestoringState,
                 searchResults, isSearching, searchTimer>>

\* the selected result's fetch rejected: the handler has no try/catch, the
\* rest of it never runs
ResultFetchFailed(i) ==
  /\ Ready
  /\ ops[i].kind = "result"
  /\ ops' = RemoveAt(ops, i)
  /\ lastEvent' = [Event("resultFetchFailed") EXCEPT !.op = ops[i]]
  /\ UNCHANGED renderVars
  /\ trail' = << >>
  /\ UNCHANGED <<mounted, entries, idx, urlHasParam, loading, error, memVars,
                 searchVars, effects>>



\* ------------------------------------------------ handlePopState
\* entries the platform's back or forward button leads to
Targets == {j \in {idx - 1, idx + 1} : 1 <= j /\ j <= Len(entries)}

\* back or forward to another page's entry: event.state has no notesNav,
\* the handler resets the view, and the router leaves the notes page, which
\* unmounts (taken when no operation of the page is in flight)
PopStateLeave(j) ==
  /\ Ready
  /\ ops = << >>
  /\ entries[j].kind = "outside"
  /\ idx' = j
  /\ mounted' = FALSE
  /\ FreshComponent
  /\ Did("leave")
  /\ UNCHANGED <<entries, urlHasParam>>

\* variant: the branch without a note id leaves noteLoading as it is
PopStateNoNoteKeepsLoading(j) ==
  /\ Ready
  /\ entries[j].kind = "nav"
  /\ entries[j].notesNav.noteId = Null
  /\ RoomAt(j)
  /\ idx' = j
  /\ viewLevel' = entries[j].notesNav.viewLevel
  /\ selectedCategory' = entries[j].notesNav.selectedCategory
  /\ selectedBook' = entries[j].notesNav.selectedBook
  /\ searchQuery' = << >>
  /\ currentNote' = NullNote
  /\ noteHistory' = << >>
  /\ isRestoringState' = FALSE
  /\ effects' = Queued(FALSE, << >>)
  /\ lastEvent' = [Event("restoredNoNote") EXCEPT !.state = entries[j].notesNav]
  /\ UNCHANGED renderVars
  /\ trail' = << >>
  /\ UNCHANGED <<mounted, entries, urlHasParam, loading, error, searchResults,
                 isSearching, searchTimer, ops, noteLoading>>

\* the stored state has no note id: the handler runs to its end without
\* awaiting; setIsRestoringState(true) and (false) fall in one batch
PopStateNoNote(j) ==
  /\ Ready
  /\ entries[j].kind = "nav"
  /\ entries[j].notesNav.noteId = Null
  /\ RoomAt(j)
  /\ idx' = j
  /\ viewLevel' = entries[j].notesNav.viewLevel
  /\ selectedCategory' = entries[j].notesNav.selectedCategory
  /\ selectedBook' = entries[j].notesNav.selectedBook
  /\ searchQuery' = << >>
  /\ currentNote' = NullNote
  /\ noteHistory' = << >>
  /\ noteLoading' = FALSE
  /\ isRestoringState' = FALSE
  /\ effects' = Queued(FALSE, << >>)
  /\ lastEvent' = [Event("restoredNoNote") EXCEPT !.state = entries[j].notesNav]
  /\ UNCHANGED renderVars
  /\ trail' = << >>
  /\ UNCHANGED <<mounted, entries, urlHasParam, loading, error, searchResults,
                 isSearching, searchTimer, ops>>

\* the stored state has a note id: up to `await fetchNote(state.noteId)`
PopStateNote(j) ==
  /\ Ready
  /\ entries[j].kind = "nav"
  /\ entries[j].notesNav.noteId # Null
  /\ RoomInFlight /\ RoomAt(j)
  /\ idx' = j
  /\ isRestoringState' = TRUE
  /\ viewLevel' = entries[j].notesNav.viewLevel
  /\ selectedCategory' = entries[j].notesNav.selectedCategory
  /\ selectedBook' = entries[j].notesNav.selectedBook
  /\ searchQuery' = << >>
  /\ noteLoading' = TRUE
  /\ ops' = Append(ops, [NoOp EXCEPT !.kind = "restore",
                                     !.state = entries[j].notesNav,
                                     !.phase = "note",
                                     !.target = entries[j].notesNav.noteId])
  /\ effects' = Queued(TRUE, << >>)
  /\ lastEvent' = [Event("popstate") EXCEPT !.state = entries[j].notesNav]
  /\ UNCHANGED renderVars
  /\ trail' = IF j = idx - 1 /\ ops = << >> THEN trail ELSE << >>
  /\ UNCHANGED <<mounted, entries, urlHasParam, loading, error, noteHistory,
                 currentNote, searchResults, isSearching, searchTimer>>

handlePopState(j) == PopStateLeave(j) \/ PopStateNoNote(j) \/ PopStateNote(j)

\* the user on another page goes back or forward to an entry of the notes
\* page: the router renders the page anew
EnterNotes(j) ==
  /\ ~mounted
  /\ entries[idx].kind = "outside"
  /\ entries[j].kind # "outside"
  /\ idx' = j
  /\ Did("enter")
  /\ UNCHANGED <<mounted, entries, urlHasParam, loading, error, memVars,
                 searchVars, ops, effects>>

\* what a finished restore records: the state it restored and, when it
\* undoes the latest navigation of trail, the state expected back
Restored(name, i) ==
  /\ lastEvent' = [Event(name) EXCEPT
                     !.state = ops[i].state,
                     !.phase = ops[i].phase,
                     !.expect = IF trail # << >> THEN trail[Len(trail)]
                                ELSE initialState,
                     !.check = (trail # << >> /\ name = "restored")]
  /\ UNCHANGED renderVars
  /\ trail' = IF trail # << >> /\ name = "restored"
                THEN SubSeq(trail, 1, Len(trail) - 1) ELSE << >>

\* the restore's finally block and the statement after it
RestoreEnds ==
  /\ noteLoading' = FALSE
  /\ isRestoringState' = FALSE
  /\ effects' = Queued(FALSE, searchQuery)

\* Promise.all: the fetch at position p resolved; its note goes to position
\* p of the result array, whatever the order of resolution
PromiseAllResolve(results, p, note) == [results EXCEPT ![p] = note]

\* the current note's fetch resolved: setCurrentNote(note); then either
\* there is no history to restore (setNoteHistory([]), finally), or the
\* handler runs up to
\* `await Promise.all(state.noteHistoryIds.map(id => fetchNote(id)))`
RestoreNoteFetched(i) ==
  /\ Ready
  /\ ops[i].kind = "restore" /\ ops[i].phase = "note"
  /\ currentNote' = NoteOf(ops[i].target)
  /\ IF Len(ops[i].state.noteHistoryIds) > 0
       THEN /\ ops' = [ops EXCEPT
                         ![i].phase = "history",
                         ![i].pending = 1..Len(ops[i].state.noteHistoryIds),
                         ![i].hist = [k \in 1..Len(ops[i].state.noteHistoryIds)
                                        |-> NullNote]]
            /\ lastEvent' = Event("restoreNoteFetched")
            /\ UNCHANGED <<noteHistory, noteLoading, isRestoringState,
                           effects, trail, content, rendered>>
       ELSE /\ noteHistory' = << >>
            /\ RestoreEnds
            /\ ops' = RemoveAt(ops, i)
            /\ Restored("restored", i)
  /\ UNCHANGED <<mounted, entries, idx, urlHasParam, loading, error,
                 viewLevel, selectedCategory, selectedBook, searchVars>>

\* the history fetch at position p resolved: when it was the last one
\* outstanding, setNoteHistory(historyNotes) and finally
RestoreHistoryFetched(i, p) ==
  /\ Ready
  /\ ops[i].kind = "restore" /\ ops[i].phase = "history"
  /\ p \in ops[i].pending
  /\ IF ops[i].pending = {p}
       THEN /\ noteHistory' = PromiseAllResolve(ops[i].hist, p,
                                NoteOf(ops[i].state.noteHistoryIds[p]))
            /\ RestoreEnds
            /\ ops' = RemoveAt(ops, i)
            /\ Restored("restored", i)
       ELSE /\ ops' = [ops EXCEPT
                         ![i].pending = @ \ {p},
                         ![i].hist = PromiseAllResolve(@, p,
                                       NoteOf(ops[i].state.noteHistoryIds[p]))]
            /\ lastEvent' = Event("restoreHistoryFetched")
            /\ UNCHANGED <<noteHistory, noteLoading, isRestoringState,
                           effects, trail, content, rendered>>
  /\ UNCHANGED <<mounted, entries, idx, urlHasParam, loading, error,
                 viewLevel, selectedCategory, selectedBook, currentNote,
                 searchVars>>

\* a catch block that clears the current note and forgets the stack
RestoreCatchKeepsHistory ==
  /\ currentNote' = NullNote
  /\ UNCHANGED noteHistory

\* the catch block of the restore
RestoreCatch ==
  /\ currentNote' = NullNote
  /\ noteHistory' = << >>

\* the current note's fetch or one of the history fetches rejected: catch,
\* finally (Promise.all rejects on the first rejection; what the other
\* fetches answer is dropped)
RestoreFailed(i) ==
  /\ Ready
  /\ ops[i].kind = "restore"
  /\ RestoreCatch
  /\ RestoreEnds
  /\ ops' = RemoveAt(ops, i)
  /\ Restored("restoreFailed", i)
  /\ UNCHANGED <<mounted, entries, idx, urlHasParam, loading, error,
                 viewLevel, selectedCategory, selectedBook, searchVars>>

\* ------------------------------------------------ the reset effect
\* useEffect(..., [searchParams, isRestoringState]).  The page never changes
\* its own URL, so after the mount the effect runs when isRestoringState
\* changed.
ResetEffectSkips ==
  /\ mounted
  /\ "reset" \in effects
  /\ \/ isRestoringState
     \/ urlHasParam
     \/ currentNote = NullNote /\ selectedBook = Null /\ selectedCategory = Null
  /\ effects' = effects \ {"reset"}
  /\ Effect("resetEffect")
  /\ UNCHANGED <<mounted, entries, idx, urlHasParam, loading, error, memVars,
                 searchVars, ops>>

ResetEffectResets ==
  /\ mounted
  /\ "reset" \in effects
  /\ ~isRestoringState
  /\ ~urlHasParam
  /\ currentNote # NullNote \/ selectedBook # Null \/ selectedCategory # Null
  /\ ResetFields
  /\ effects' = (effects \ {"reset"}) \cup Queued(isRestoringState, << >>)
  /\ Effect("resetEffect")
  /\ UNCHANGED <<mounted, entries, idx, urlHasParam, loading, error,
                 noteLoading, isRestoringState, searchResults, isSearching,
                 searchTimer, ops>>

ResetEffect == ResetEffectSkips \/ ResetEffectResets

\* ------------------------------------------------ specifications
\* A session in a new tab: browsing by category, book and child note, the
\* breadcrumb, and the platform's back and forward buttons.
Next ==
  \/ Mount
  \/ StructureLoaded
  \/ StructureFailed
  \/ resetToCategories
  \/ BreadcrumbCategoryClick
  \/ BackToCategoriesClick
  \/ \E category \in Categories : handleCategoryClick(category)
  \/ \E book \in BooksOf("Science") : handleBookClick(book)
  \/ \E child \in NoteIds : ChildClick(child)
  \/ \E j \in Targets : PopStateNoNote(j)
  \/ \E j \in Targets : PopStateNote(j)
  \/ ResetEffect
  \/ \E i \in 1..Len(ops) : BookFetched(i)
  \/ \E i \in 1..Len(ops) : BookFetchFailed(i)
  \/ \E i \in 1..Len(ops) : NoteFetched(i)
  \/ \E i \in 1..Len(ops) : NoteFetchFailed(i)
  \/ \E i \in 1..Len(ops) : RestoreNoteFetched(i)
  \/ \E i \in 1..Len(ops) : RestoreFailed(i)
  \/ \E i \in 1..Len(ops) : \E p \in ops[i].pending : RestoreHistoryFetched(i, p)

Spec == Init /\ [][Next]_vars

\* A session that comes to the notes page from another page of the site, at
\* /notes or at a URL with ?note= or ?book=, and leaves and re-enters it:
\* by the header's links, by a reload, by the platform's back and forward.
InitSession == \E url \in BOOLEAN : Opened(<<OutsideEntry, FreshEntry>>, url)

NextSession ==
  \/ Mount
  \/ StructureLoaded
  \/ handleNavClick
  \/ HeaderLinkClick
  \/ resetToCategories
  \/ \E category \in Categories : handleCategoryClick(category)
  \/ \E book \in BooksOf("Science") : handleBookClick(book)
  \/ \E j \in Targets : PopStateLeave(j)
  \/ \E j \in Targets : PopStateNoNote(j)
  \/ \E j \in Targets : PopStateNote(j)
  \/ \E j \in Targets : EnterNotes(j)
  \/ ResetEffect
  \/ \E i \in 1..Len(ops) : BookFetched(i)
  \/ \E i \in 1..Len(ops) : BookFetchFailed(i)
  \/ \E i \in 1..Len(ops) : RestoreNoteFetched(i)
  \/ \E i \in 1..Len(ops) : RestoreFailed(i)

SpecSession == InitSession /\ [][NextSession]_vars

\* The platform's back and forward buttons late in a session: the user came
\* by category, book and child note to c1, whose entry is the last of four.
\* Restores may overlap, succeed or fail, and the user may reset the view
\* while they run.
InitRestore ==
  /\ mounted = TRUE
  /\ entries = <<NavEntry(initialState, FALSE),
                 NavEntry(NavigationState("books", "Science", Null, Null, << >>), TRUE),
                 NavEntry(NavigationState("note", "Science", "Sapiens", "root", << >>), TRUE),
                 NavEntry(NavigationState("note", "Science", "Sapiens", "c1", <<"root">>), TRUE)>>
  /\ idx = 4
  /\ urlHasParam \in BOOLEAN
  /\ loading = FALSE
  /\ error = FALSE
  /\ noteHistory = <<NoteOf("root")>>
  /\ viewLevel = "note"
  /\ selectedCategory = "Science"
  /\ selectedBook = "Sapiens"
  /\ currentNote = NoteOf("c1")
  /\ noteLoading = FALSE
  /\ searchQuery = << >>
  /\ searchResults = << >>
  /\ isSearching = FALSE
  /\ isRestoringState = FALSE
  /\ searchTimer = NoTimer
  /\ ops = << >>
  /\ effects = {}
  /\ lastEvent = Event("init")
  /\ trail = << >>
  /\ content = << >>
  /\ rendered = NotRendered

NextRestore ==
  \/ resetToCategories
  \/ BreadcrumbCategoryClick
  \/ \E j \in Targets : PopStateNoNote(j)
  \/ \E j \in Targets : PopStateNote(j)
  \/ ResetEffect
  \/ \E i \in 1..Len(ops) : RestoreNoteFetched(i)
  \/ \E i \in 1..Len(ops) : RestoreFailed(i)
  \/ \E i \in 1..Len(ops) : \E p \in ops[i].pending : RestoreHistoryFetched(i, p)

SpecRestore == InitRestore /\ [][NextRestore]_vars

\* Following the [[links]] of a note: the user came by category and book to
\* the root note of Sapiens, whose entry is the last of three.
InitLinks ==
  /\ mounted = TRUE
  /\ entries = <<NavEntry(initialState, FALSE),
                 NavEntry(NavigationState("books", "Science", Null, Null, << >>), TRUE),
                 NavEntry(NavigationState("note", "Science", "Sapiens", "root", << >>), TRUE)>>
  /\ idx = 3
  /\ urlHasParam = FALSE
  /\ loading = FALSE
  /\ error = FALSE
  /\ noteHistory = << >>
  /\ viewLevel = "note"
  /\ selectedCategory = "Science"
  /\ selectedBook = "Sapiens"
  /\ currentNote = NoteOf("root")
  /\ noteLoading = FALSE
  /\ searchQuery = << >>
  /\ searchResults = << >>
  /\ isSearching = FALSE
  /\ isRestoringState = FALSE
  /\ searchTimer = NoTimer
  /\ ops = << >>
  /\ effects = {}
  /\ lastEvent = Event("init")
  /\ trail = << >>
  /\ content = << >>
  /\ rendered = NotRendered

NextLinks ==
  \/ resetToCategories
  \/ \E child \in NoteIds : ChildClick(child)
  \/ \E linkText \in UNION {LinksOf(id) : id \in NoteIds} :
       handleWikiLinkClick(linkText)
  \/ \E i \in 1..Len(ops) : \E response \in SearchResponses :
       WikiSearchFound(i, response)
  \/ \E i \in 1..Len(ops) : WikiSearchEmpty(i)
  \/ \E i \in 1..Len(ops) : NoteFetched(i)
  \/ \E i \in 1..Len(ops) : NoteFetchFailed(i)
  \/ \E j \in Targets : PopStateNoNote(j)

SpecLinks == InitLinks /\ [][NextLinks]_vars

\* The search box: the page has loaded and shows the categories.
InitSearch ==
  /\ mounted = TRUE
  /\ entries = <<NavEntry(initialState, FALSE)>>
  /\ idx = 1
  /\ urlHasParam = FALSE
  /\ loading = FALSE
  /\ error = FALSE
  /\ noteHistory = << >>
  /\ viewLevel = "categories"
  /\ selectedCategory = Null
  /\ selectedBook = Null
  /\ currentNote = NullNote
  /\ noteLoading = FALSE
  /\ searchQuery = << >>
  /\ searchResults = << >>
  /\ isSearching = FALSE
  /\ isRestoringState = FALSE
  /\ searchTimer = NoTimer
  /\ ops = << >>
  /\ effects = {}
  /\ lastEvent = Event("init")
  /\ trail = << >>
  /\ content = << >>
  /\ rendered = NotRendered

NextSearch ==
  \/ \E q \in Queries : SetSearchQuery(q)
  \/ SearchEffect
  \/ \E t \in searchTimer : SearchTimerFired(t)
  \/ \E i \in 1..Len(ops) : \E response \in SearchResponses :
       SearchResolved(i, response)
  \/ \E i \in 1..Len(ops) : SearchRejected(i)
  \/ resetToCategories

SpecSearch == InitSearch /\ [][NextSearch]_vars

\* Selecting a search result: the user picked the root note of Sapiens from
\* the results at the categories and opened its first chapter.
InitSelect ==
  /\ mounted = TRUE
  /\ entries = <<NavEntry(initialState, FALSE),
                 NavEntry(NavigationState("note", "Science", "Sapiens", "root", << >>), TRUE),
                 NavEntry(NavigationState("note", "Science", "Sapiens", "c1", <<"root">>), TRUE)>>
  /\ idx = 3
  /\ urlHasParam = FALSE
  /\ loading = FALSE
  /\ error = FALSE
  /\ noteHistory = <<NoteOf("root")>>
  /\ viewLevel = "note"
  /\ selectedCategory = "Science"
  /\ selectedBook = "Sapiens"
  /\ currentNote = NoteOf("c1")
  /\ noteLoading = FALSE
  /\ searchQuery = << >>
  /\ searchResults = << >>
  /\ isSearching = FALSE
  /\ isRestoringState = FALSE
  /\ searchTimer = NoTimer
  /\ ops = << >>
  /\ effects = {}
  /\ lastEvent = Event("init")
  /\ trail = << >>
  /\ content = << >>
  /\ rendered = NotRendered

NextSelect ==
  \/ \E q \in Queries : SetSearchQuery(q)
  \/ SearchEffect
  \/ \E t \in searchTimer : SearchTimerFired(t)
  \/ \E i \in 1..Len(ops) : \E response \in SearchResponses :
       SearchResolved(i, response)
  \/ \E k \in 1..Len(searchResults) : SearchResultClick(k)
  \/ \E i \in 1..Len(ops) : ResultFetched(i)
  \/ \E i \in 1..Len(ops) : ResultFetchFailed(i)
  \/ resetToCategories

SpecSelect == InitSelect /\ [][NextSelect]_vars

\* Moving between the three view levels: the user has chosen the category and
\* sees its books; from there category, book, breadcrumb and back buttons,
\* the reset and the platform's back and forward, in any order with the
\* completions of the fetches they start.
InitLevels ==
  /\ mounted = TRUE
  /\ entries = <<NavEntry(initialState, FALSE),
                 NavEntry(NavigationState("books", "Science", Null, Null, << >>), TRUE)>>
  /\ idx = 2
  /\ urlHasParam \in BOOLEAN
  /\ loading = FALSE
  /\ error = FALSE
  /\ noteHistory = << >>
  /\ viewLevel = "books"
  /\ selectedCategory = "Science"
  /\ selectedBook = Null
  /\ currentNote = NullNote
  /\ noteLoading = FALSE
  /\ searchQuery = << >>
  /\ searchResults = << >>
  /\ isSearching = FALSE
  /\ isRestoringState = FALSE
  /\ searchTimer = NoTimer
  /\ ops = << >>
  /\ effects = {}
  /\ lastEvent = Event("init")
  /\ trail = << >>
  /\ content = << >>
  /\ rendered = NotRendered

NextLevels ==
  \/ resetToCategories
  \/ BreadcrumbCategoryClick
  \/ BackToCategoriesClick
  \/ \E category \in Categories : handleCategoryClick(category)
  \/ \E book \in BooksOf("Science") : handleBookClick(book)
  \/ \E j \in Targets : PopStateNoNote(j)
  \/ \E j \in Targets : PopStateNote(j)
  \/ ResetEffect
  \/ \E i \in 1..Len(ops) : BookFetched(i)
  \/ \E i \in 1..Len(ops) : BookFetchFailed(i)
  \/ \E i \in 1..Len(ops) : RestoreNoteFetched(i)
  \/ \E i \in 1..Len(ops) : RestoreFailed(i)

SpecLevels == InitLevels /\ [][NextLevels]_vars

\* ------------------------------------------------ the note renderer
\* A string is the sequence of its characters; the tags that formatText
\* inserts are single elements (none of them holds a '*' or a backtick).

\* the backtick character
Backtick == "backtick"

\* the characters \s matches and trim() removes
Whitespace == {" ", "\t", "\n"}

\* the characters \d matches
Digits == {"0", "1", "2", "3", "4", "5", "6", "7", "8", "9"}

Least(S) == CHOOSE x \in S : \A y \in S : x <= y

Greatest(S) == CHOOSE x \in S : \A y \in S : x >= y

\* String.prototype.startsWith
startsWith(s, prefix) ==
  Len(s) >= Len(prefix) /\ SubSeq(s, 1, Len(prefix)) = prefix

\* String.prototype.slice(start), start counted from 0
slice(s, start) == SubSeq(s, start + 1, Len(s))

\* String.prototype.trim
trim(s) ==
  LET keep == {i \in 1..Len(s) : s[i] \notin Whitespace}
  IN IF keep = {} THEN << >> ELSE SubSeq(s, Least(keep), Greatest(keep))

\* content.split("\n")
RECURSIVE split(_)
split(s) ==
  LET breaks == {i \in 1..Len(s) : s[i] = "\n"}
  IN IF breaks = {} THEN <<s>>
     ELSE <<SubSeq(s, 1, Least(breaks) - 1)>>
            \o split(slice(s, Least(breaks)))

\* a greedy negated class [^...]+ tried at position from: the position
\* after the longest run of characters outside stops (from itself when the
\* run is empty)
RunEnd(s, from, stops) ==
  Greatest({e \in from..(Len(s) + 1) :
              \A k \in from..(e - 1) : s[k] \notin stops})

\* s.replace(/D([^c]+)D/g, open + "$1" + close), D being c repeated n
\* times: the scan tries the pattern at each position from the left and
\* goes on after a match
RECURSIVE replace(_, _, _, _, _)
replace(s, c, n, open, close) ==
  IF s = << >> THEN << >>
  ELSE IF /\ Len(s) >= 2 * n + 1
          /\ \A k \in 1..n : s[k] = c
          /\ RunEnd(s, n + 1, {c}) > n + 1
          /\ RunEnd(s, n + 1, {c}) + n - 1 <= Len(s)
          /\ \A k \in 0..(n - 1) : s[RunEnd(s, n + 1, {c}) + k] = c
    THEN <<open>> \o SubSeq(s, n + 1, RunEnd(s, n + 1, {c}) - 1) \o <<close>>
           \o replace(slice(s, RunEnd(s, n + 1, {c}) + n - 1), c, n, open, close)
    ELSE <<s[1]>> \o replace(slice(s, 1), c, n, open, close)

\* variant: _text_ is italic too
formatTextUnderscore(text) ==
  replace(replace(replace(replace(text, "*", 2, "<strong>", "</strong>"),
                          "*", 1, "<em>", "</em>"),
                  "_", 1, "<em>", "</em>"),
          Backtick, 1, "<code>", "</code>")

\* bold, then italic, then inline code
formatText(text) ==
  replace(replace(replace(text, "*", 2, "<strong>", "</strong>"),
                  "*", 1, "<em>", "</em>"),
          Backtick, 1, "<code>", "</code>")

\* the same three substitutions, in the notes browser
formatInlineText(text) ==
  replace(replace(replace(text, "*", 2, "<strong>", "</strong>"),
                  "*", 1, "<em>", "</em>"),
          Backtick, 1, "<code>", "</code>")

\* exec found nothing
NoMatch == [index |-> 0, end |-> 0, target |-> << >>, alias |-> << >>]

\* wikiLinkPattern /\[\[([^\]|]+)(?:\|([^\]]+))?\]\]/ tried at position i:
\* index the position of its first character, end that of its last,
\* target match[1], alias match[2] (empty when the group did not take part)
matchAt(text, i) ==
  IF ~(i + 1 <= Len(text) /\ text[i] = "[" /\ text[i + 1] = "[") THEN NoMatch
  ELSE LET t == RunEnd(text, i + 2, {"]", "|"})
           a == RunEnd(text, t + 1, {"]"})
       IN IF t = i + 2 THEN NoMatch
          ELSE IF t + 1 <= Len(text) /\ text[t] = "]" /\ text[t + 1] = "]"
            THEN [index |-> i, end |-> t + 1,
                  target |-> SubSeq(text, i + 2, t - 1), alias |-> << >>]
          ELSE IF /\ t <= Len(text) /\ text[t] = "|"
                  /\ a > t + 1
                  /\ a + 1 <= Len(text) /\ text[a] = "]" /\ text[a + 1] = "]"
            THEN [index |-> i, end |-> a + 1,
                  target |-> SubSeq(text, i + 2, t - 1),
                  alias |-> SubSeq(text, t + 1, a - 1)]
          ELSE NoMatch

\* wikiLinkPattern.exec(text) with lastIndex characters already consumed
exec(text, lastIndex) ==
  LET hits == {i \in (lastIndex + 1)..Len(text) : matchAt(text, i) # NoMatch}
  IN IF hits = {} THEN NoMatch ELSE matchAt(text, Least(hits))

\* <span>{formatInlineText(text)}</span>
Span(text) ==
  [type |-> "span", html |-> formatInlineText(text),
   displayText |-> << >>, linkTarget |-> << >>]

\* variant: the button's onClick passes what the button shows
ButtonClicksDisplay(linkTarget, alias) ==
  [type |-> "button", html |-> << >>,
   displayText |-> IF alias # << >> THEN alias ELSE linkTarget,
   linkTarget |-> IF alias # << >> THEN alias ELSE linkTarget]

\* <button onClick={... onLinkClick(linkTarget)}>{displayText}</button>
\* with displayText = match[2] || match[1]
Button(linkTarget, alias) ==
  [type |-> "button", html |-> << >>,
   displayText |-> IF alias # << >> THEN alias ELSE linkTarget,
   linkTarget |-> linkTarget]

\* the while loop of renderInlineContent and the remaining text after it
RECURSIVE parts(_, _)
parts(text, lastIndex) ==
  LET match == exec(text, lastIndex)
  IN IF match = NoMatch
       THEN IF lastIndex < Len(text)
              THEN <<Span(slice(text, lastIndex))>> ELSE << >>
       ELSE (IF match.index - 1 > lastIndex
               THEN <<Span(SubSeq(text, lastIndex + 1, match.index - 1))>>
               ELSE << >>)
            \o <<Button(match.target, match.alias)>>
            \o parts(text, match.end)

\* return parts.length > 0 ? parts : formatInlineText(text)
renderInlineContent(text) ==
  IF Len(parts(text, 0)) > 0 THEN parts(text, 0) ELSE <<Span(text)>>

\* an element pushed by NoteContent: key is the index of its line
Element(type, key, children, code) ==
  [type |-> type, key |-> key, children |-> children, code |-> code]

\* line.match(/^[-*]\s/)
matchesBullet(line) ==
  Len(line) >= 2 /\ line[1] \in {"-", "*"} /\ line[2] \in Whitespace

\* the length of what /^\d+\.\s/ matches at the start of line, 0 for none
numberedPrefix(line) ==
  LET d == RunEnd(line, 1, {line[k] : k \in 1..Len(line)} \ Digits) - 1
  IN IF d >= 1 /\ d + 2 <= Len(line) /\ line[d + 1] = "." /\ line[d + 2] \in Whitespace
       THEN d + 2 ELSE 0

\* variant: a numbered item keeps its number
blockKeepsNumber(line, index) ==
  IF startsWith(line, <<"#", "#", "#", " ">>)
    THEN Element("h3", index, renderInlineContent(slice(line, 4)), << >>)
  ELSE IF startsWith(line, <<"#", "#", " ">>)
    THEN Element("h2", index, renderInlineContent(slice(line, 3)), << >>)
  ELSE IF startsWith(line, <<"#", " ">>)
    THEN Element("h1", index, renderInlineContent(slice(line, 2)), << >>)
  ELSE IF startsWith(line, <<">", " ">>)
    THEN Element("blockquote", index, renderInlineContent(slice(line, 2)), << >>)
  ELSE IF matchesBullet(line)
    THEN Element("li", index, renderInlineContent(slice(line, 2)), << >>)
  ELSE IF numberedPrefix(line) > 0
    THEN Element("li decimal", index, renderInlineContent(line), << >>)
  ELSE IF trim(line) = << >>
    THEN Element("div", index, << >>, << >>)
  ELSE Element("p", index, renderInlineContent(line), << >>)

\* the element pushed for a line outside code: headings, blockquote, list
\* item, numbered item, empty line, paragraph
block(line, index) ==
  IF startsWith(line, <<"#", "#", "#", " ">>)
    THEN Element("h3", index, renderInlineContent(slice(line, 4)), << >>)
  ELSE IF startsWith(line, <<"#", "#", " ">>)
    THEN Element("h2", index, renderInlineContent(slice(line, 3)), << >>)
  ELSE IF startsWith(line, <<"#", " ">>)
    THEN Element("h1", index, renderInlineContent(slice(line, 2)), << >>)
  ELSE IF startsWith(line, <<">", " ">>)
    THEN Element("blockquote", index, renderInlineContent(slice(line, 2)), << >>)
  ELSE IF matchesBullet(line)
    THEN Element("li", index, renderInlineContent(slice(line, 2)), << >>)
  ELSE IF numberedPrefix(line) > 0
    THEN Element("li decimal", index,
                 renderInlineContent(slice(line, numberedPrefix(line))), << >>)
  ELSE IF trim(line) = << >>
    THEN Element("div", index, << >>, << >>)
  ELSE Element("p", index, renderInlineContent(line), << >>)

\* variant: a line collected as code is classified as well (no return after
\* codeContent += line)
forEachLineNoReturn(st, line, index) ==
  IF startsWith(line, <<Backtick, Backtick, Backtick>>)
    THEN IF ~st.inCodeBlock
           THEN [st EXCEPT !.inCodeBlock = TRUE, !.codeContent = << >>]
           ELSE [st EXCEPT !.inCodeBlock = FALSE,
                           !.elements = Append(@, Element("pre", index, << >>,
                                                          st.codeContent))]
  ELSE IF st.inCodeBlock
    THEN [st EXCEPT !.codeContent = @ \o line \o <<"\n">>,
                    !.elements = Append(@, block(line, index))]
  ELSE [st EXCEPT !.elements = Append(@, block(line, index))]

\* the callback of lines.forEach: st holds elements, inCodeBlock and
\* codeContent; index counts the lines from 0
forEachLine(st, line, index) ==
  IF startsWith(line, <<Backtick, Backtick, Backtick>>)
    THEN IF ~st.inCodeBlock
           THEN [st EXCEPT !.inCodeBlock = TRUE, !.codeContent = << >>]
           ELSE [st EXCEPT !.inCodeBlock = FALSE,
                           !.elements = Append(@, Element("pre", index, << >>,
                                                          st.codeContent))]
  ELSE IF st.inCodeBlock
    THEN [st EXCEPT !.codeContent = @ \o line \o <<"\n">>]
  ELSE [st EXCEPT !.elements = Append(@, block(line, index))]

\* lines.forEach from the line at position i on
RECURSIVE forEach(_, _, _)
forEach(lines, i, st) ==
  IF i > Len(lines) THEN st
  ELSE forEach(lines, i + 1, forEachLine(st, lines[i], i - 1))

\* the elements pushed for a list of lines
elements(lines) ==
  forEach(lines, 1, [elements |-> << >>, inCodeBlock |-> FALSE,
                     codeContent |-> << >>]).elements

\* <p>This note has no content.</p>
NoContent == <<Element("no content", 0, << >>, << >>)>>

\* NoteContent: if (!content || content.trim() === "") ... else the
\* elements of content.split("\n")
NoteContent(text) ==
  IF text = << >> \/ trim(text) = << >> THEN NoContent
  ELSE elements(split(text))

\* ------------------------------------------------ rendering a note
\* the page shows a note (the root note of Sapiens, reached by category and
\* book) whose content is handed to NoteContent
NoteOnScreen ==
  /\ mounted = TRUE
  /\ entries = <<NavEntry(initialState, FALSE),
                 NavEntry(NavigationState("books", "Science", Null, Null, << >>), TRUE),
                 NavEntry(NavigationState("note", "Science", "Sapiens", "root", << >>), TRUE)>>
  /\ idx = 3
  /\ urlHasParam = FALSE
  /\ loading = FALSE
  /\ error = FALSE
  /\ noteHistory = << >>
  /\ viewLevel = "note"
  /\ selectedCategory = "Science"
  /\ selectedBook = "Sapiens"
  /\ currentNote = NoteOf("root")
  /\ noteLoading = FALSE
  /\ searchQuery = << >>
  /\ searchResults = << >>
  /\ isSearching = FALSE
  /\ isRestoringState = FALSE
  /\ searchTimer = NoTimer
  /\ ops = << >>
  /\ effects = {}
  /\ lastEvent = Event("init")
  /\ trail = << >>

\* lines a note text is made of: one or more of every block form, with and
\* without wiki-links, and lines that only resemble a form
SampleLines ==
  { <<Backtick, Backtick, Backtick>>,
    <<"#", "#", "#", " ", "a">>,
    <<"#", "#", " ", "[", "[", "a", "]", "]">>,
    <<"#", " ", "a">>,
    <<">", " ", "a">>,
    <<"-", " ", "a">>,
    <<"*", " ", "[", "[", "b", "]", "]">>,
    <<"1", "2", ".", " ", "a">>,
    << >>,
    <<" ">>,
    <<"[", "[", "a", "|", "b", "]", "]", " ", "[", "[", "b", "]", "]">>,
    <<"*", "a", "*">>,
    <<"1", ".", "a">> }

\* lines.join("\n")
RECURSIVE join(_)
join(lines) ==
  IF lines = << >> THEN << >>
  ELSE IF Len(lines) = 1 THEN lines[1]
  ELSE lines[1] \o <<"\n">> \o join(Tail(lines))

\* the note texts rendered: up to MaxLines sample lines
Documents ==
  {join(d) : d \in UNION {[1..n -> SampleLines] : n \in 0..MaxLines}}

\* the strings formatted: up to MaxChars characters
Texts ==
  UNION {[1..n -> {"a", " ", "*", "_", Backtick}] : n \in 0..MaxChars}

\* <NoteContent content={currentNote.content} onLinkClick={handleWikiLinkClick}/>
RenderNote ==
  /\ rendered.passes = 0
  /\ rendered' = [out |-> NoteContent(content), passes |-> 1]
  /\ UNCHANGED <<pageVars, content>>

\* a link button of the rendered note is clicked: onLinkClick(linkTarget),
\* that is handleWikiLinkClick up to `await searchNotes(linkText)`
LinkButtonClick(e, k) ==
  /\ rendered.passes = 1
  /\ e \in 1..Len(rendered.out)
  /\ k \in 1..Len(rendered.out[e].children)
  /\ rendered.out[e].children[k].type = "button"
  /\ Ready /\ NoteShown
  /\ RoomToFetch
  /\ isRestoringState \/ RoomToPush
  /\ Len(noteHistory) < MaxStack
  /\ ops' = Append(ops, [NoOp EXCEPT !.kind = "wiki",
                                     !.guard = isRestoringState,
                                     !.link = rendered.out[e].children[k].linkTarget,
                                     !.cur = currentNote,
                                     !.hist = noteHistory,
                                     !.cat = selectedCategory,
                                     !.book = selectedBook])
  /\ lastEvent' = [Event("linkButtonClick") EXCEPT
                     !.op = [NoOp EXCEPT
                               !.kind = "wiki",
                               !.link = rendered.out[e].children[k].linkTarget],
                     !.results = <<rendered.out[e].children[k]>>]
  /\ trail' = << >>
  /\ UNCHANGED <<mounted, entries, idx, urlHasParam, loading, error, memVars,
                 searchVars, effects, renderVars>>

InitBlocks ==
  /\ NoteOnScreen
  /\ content \in Documents
  /\ rendered = NotRendered

NextBlocks ==
  \/ RenderNote
  \/ \E e \in 1..Len(rendered.out) :
       \E k \in 1..Len(rendered.out[e].children) : LinkButtonClick(e, k)

SpecBlocks == InitBlocks /\ [][NextBlocks]_vars

\* formatText(text)
FormatText ==
  /\ rendered.passes = 0
  /\ rendered' = [out |-> formatText(content), passes |-> 1]
  /\ UNCHANGED <<pageVars, content>>

\* formatText applied to its own result
FormatAgain ==
  /\ rendered.passes = 1
  /\ rendered' = [out |-> formatText(rendered.out), passes |-> 2]
  /\ UNCHANGED <<pageVars, content>>

\* formatInlineText(text)
FormatInlineText ==
  /\ rendered.passes = 0
  /\ rendered' = [out |-> formatInlineText(content), passes |-> 1]
  /\ UNCHANGED <<pageVars, content>>

InitInline ==
  /\ NoteOnScreen
  /\ content \in Texts
  /\ rendered = NotRendered

NextInline ==
  \/ FormatText
  \/ FormatAgain
  \/ FormatInlineText

SpecInline == InitInline /\ [][NextInline]_vars

\* ------------------------------------------------ claims
\* a restore handler has started and not yet ended
RestoreInProgress == \E i \in 1..Len(ops) : ops[i].kind = "restore"

\* C1: once the platform's back has undone the latest of a run of
\* consecutive note-to-note navigations (all fetches succeeding, the restore
\* allowed to finish), the page is in exactly the state that was in effect
\* before that navigation (viewLevel, selectedCategory, selectedBook, current
\* note id, stack ids in order), and it stays in that state until the next
\* user or platform event.
C1_BackRestoresAndStays ==
  lastEvent.check => MemState = lastEvent.expect

\* C2: when a child navigation started with current note c and stack H has
\* its fetch resolved, the in-memory stack is H followed by c (H when there
\* was no current note), the current note is the fetched note, and the
\* state the operation pushed lists the ids of that stack in order.
C2_NavigationResult ==
  lastEvent.name = "noteFetched" =>
    /\ Ids(noteHistory) =
         IF lastEvent.before.noteId # Null
           THEN Append(lastEvent.before.noteHistoryIds, lastEvent.before.noteId)
           ELSE lastEvent.before.noteHistoryIds
    /\ currentNote.id = lastEvent.state.noteId
    /\ lastEvent.pushed =>
         entries[idx].notesNav.noteHistoryIds = Ids(noteHistory)

\* C3: every history entry the page pushes equals the in-memory state at
\* the moment of the push (viewLevel, selectedCategory, selectedBook, note
\* id, stack ids), whatever the user did while the operation's fetch was in
\* flight.
C3_PushedEqualsMemory ==
  lastEvent.pushed =>
    /\ entries[idx].kind = "nav"
    /\ entries[idx].notesNav.viewLevel = viewLevel
    /\ entries[idx].notesNav.selectedCategory = selectedCategory
    /\ entries[idx].notesNav.selectedBook = selectedBook
    /\ entries[idx].notesNav.noteId = currentNote.id
    /\ entries[idx].notesNav.noteHistoryIds = Ids(noteHistory)

\* C4: mounting the page adds no history entry: the current entry, and only
\* it, is overwritten with the initial NavigationState (categories, no
\* category, no book, no note id, no ids); the history is as long as before
\* and the current index is the same, so that the entry a single back leads
\* to is the one it led to before the mount (in a fresh session, another
\* page's).
C4_MountReplaces ==
  [][(~mounted /\ mounted') =>
       /\ Len(entries') = Len(entries)
       /\ idx' = idx
       /\ entries'[idx].kind = "nav"
       /\ entries'[idx].notesNav =
            [viewLevel |-> "categories", selectedCategory |-> Null,
             selectedBook |-> Null, noteId |-> Null, noteHistoryIds |-> << >>]
       /\ \A i \in 1..Len(entries) : i # idx => entries'[i] = entries[i]
       /\ (idx > 1 /\ entries[idx - 1].kind = "outside") =>
            entries'[idx' - 1].kind = "outside"]_vars

\* C4 witness: a fresh session has mounted: the history still has its two
\* entries, the current one carries the initial state and back leads out
C4_FreshSessionMounted ==
  /\ mounted /\ lastEvent.name = "mount"
  /\ Len(entries) = 2 /\ idx = 2
  /\ entries[2] = NavEntry(initialState, FALSE)
  /\ entries[1].kind = "outside"

\* C5: no operation of the notes page (a navigation, a reset, a restore, a
\* mount while a pushed entry is the current one) changes the payload of an
\* entry that was pushed and is still in the history.
C5_PushedNeverChanged ==
  [][mounted' =>
       \A i \in 1..idx : entries[i].pushed => entries'[i] = entries[i]]_vars

\* C6: when a restore of a stored state S with a note id finishes with all
\* its fetches successful, viewLevel, selectedCategory and selectedBook are
\* S's, the current note's id is S.noteId, the stack's ids are
\* S.noteHistoryIds in order, and the search query is empty.
C6_RestoreMatchesStored ==
  lastEvent.name = "restored" =>
    /\ viewLevel = lastEvent.state.viewLevel
    /\ selectedCategory = lastEvent.state.selectedCategory
    /\ selectedBook = lastEvent.state.selectedBook
    /\ currentNote.id = lastEvent.state.noteId
    /\ Ids(noteHistory) = lastEvent.state.noteHistoryIds
    /\ searchQuery = << >>

\* C7: isRestoringState is set as long as any restore still has a fetch
\* outstanding.
C7_GuardHeldWhileFetching ==
  RestoreInProgress => isRestoringState

\* C8: no step pushes a history entry while a restore is in progress.
C8_NoPushDuringRestore ==
  lastEvent.pushed => ~RestoreInProgress

\* C9: when a restore ends because the fetch of the current note or of a
\* history note failed, the current note is null and the stack is empty
\* together, noteLoading is false and isRestoringState is false.
C9_FailureClearsBoth ==
  lastEvent.name = "restoreFailed" =>
    /\ currentNote = NullNote
    /\ noteHistory = << >>
    /\ ~noteLoading
    /\ ~isRestoringState

\* C9 witness: a restore failed at a history fetch, after its current note
\* had been loaded
C9_HistoryFetchFailed ==
  /\ lastEvent.name = "restoreFailed"
  /\ lastEvent.phase = "history"
  /\ lastEvent.state.noteHistoryIds # << >>

\* C10: whenever viewLevel is categories or books, the in-memory stack is
\* empty.
C10_StackEmptyOutsideNotes ==
  viewLevel \in {"categories", "books"} => noteHistory = << >>

\* C11: when the search of a clicked [[link]] t answers with a non-empty
\* list R, the note navigated to is the first element of R whose title
\* equals t without regard to case and whose book is the book of the note
\* the link was clicked in; when R has no such element, the first element
\* whose title equals t without regard to case; when it has none either,
\* the first element of R.
C11_LinkResolution ==
  (lastEvent.name = "navigate" /\ lastEvent.op.kind = "wiki") =>
    LET R == lastEvent.results
        t == lastEvent.op.link
        n == lastEvent.op.cur
        titled(i) == ToLowerCase(R[i].title) = ToLowerCase(t)
        inBook(i) == titled(i) /\ R[i].book = n.book
    IN \E i \in 1..Len(R) :
         /\ ops[Len(ops)].kind = "nav"
         /\ ops[Len(ops)].target = R[i].id
         /\ \/ inBook(i) /\ \A j \in 1..(i - 1) : ~inBook(j)
            \/ /\ \A j \in 1..Len(R) : ~inBook(j)
               /\ titled(i) /\ \A j \in 1..(i - 1) : ~titled(j)
            \/ (\A j \in 1..Len(R) : ~titled(j)) /\ i = 1

\* C11 witness: the answer lists a note of that title in another book before
\* the one in the current note's book, and the latter is navigated to
C11_SameBookBeatsEarlierTitle ==
  /\ lastEvent.name = "navigate" /\ lastEvent.op.kind = "wiki"
  /\ Len(lastEvent.results) = 2
  /\ lastEvent.results[1].id = "x2"
  /\ lastEvent.results[2].id = "c2"
  /\ lastEvent.op.cur.book = "Sapiens"
  /\ ops[Len(ops)].target = "c2"

\* C12: when the search of a clicked [[link]] answers with no result or
\* fails, nothing changes: viewLevel, selectedCategory, selectedBook, the
\* current note, the stack, noteLoading and the history entries are what
\* they were, and no error is set.
C12_NoLinkTargetNoChange ==
  [][lastEvent'.name = "wikiNoResult" =>
       /\ viewLevel' = viewLevel
       /\ selectedCategory' = selectedCategory
       /\ selectedBook' = selectedBook
       /\ currentNote' = currentNote
       /\ noteHistory' = noteHistory
       /\ noteLoading' = noteLoading
       /\ entries' = entries
       /\ idx' = idx
       /\ error' = error]_vars

\* C12 witness: a link's search came back empty while the note it was
\* clicked in is shown
C12_LinkWithoutTarget ==
  /\ lastEvent.name = "wikiNoResult"
  /\ lastEvent.op.kind = "wiki"
  /\ viewLevel = "note"
  /\ currentNote = lastEvent.op.cur
  /\ ~error

\* the search requests of the search box that are in flight
SearchesInFlight == {i \in 1..Len(ops) : ops[i].kind = "search"}

\* C13: every search request of the search box carries a query of at least
\* 2 characters, and none is sent while the query has fewer than 2: once the
\* query was shortened below 2 and the page has rendered, no timer is pending.
C13_NoShortQueryRequest ==
  /\ \A i \in SearchesInFlight : Len(ops[i].query) >= 2
  /\ lastEvent.name = "searchSent" =>
       Len(lastEvent.op.query) >= 2 /\ Len(searchQuery) >= 2
  /\ (Len(searchQuery) < 2 /\ effects = {}) => searchTimer = NoTimer

\* C13 witness: the query was shortened below 2 characters while the timer
\* of a longer query was pending, and that timer is gone
C13_ShortenedWhilePending ==
  /\ lastEvent.name = "searchEffect" /\ lastEvent.cleared
  /\ Len(searchQuery) < 2
  /\ searchTimer = NoTimer
  /\ SearchesInFlight = {}

\* C14: while the query has fewer than 2 characters (and the page has
\* rendered it), the result list is empty, also when a request sent for an
\* earlier query resolves after the query was cleared.
C14_EmptyWhileShort ==
  (Len(searchQuery) < 2 /\ effects = {}) => searchResults = << >>

\* C15: at most one debounce timer is pending, it is for the query now in
\* the box (a keystroke clears the timer of the query before it), and a
\* request is sent with the query that is in the box when its timer fires.
C15_OneTimerForCurrentQuery ==
  /\ Cardinality(searchTimer) <= 1
  /\ effects = {} => \A t \in searchTimer : t.query = searchQuery
  /\ lastEvent.name = "searchSent" => lastEvent.op.query = searchQuery

\* C15 witness: a keystroke changed the query while a timer was pending;
\* that timer was cleared and the only pending timer is for the new query
C15_KeystrokeSupersededTimer ==
  /\ lastEvent.name = "searchEffect" /\ lastEvent.cleared
  /\ lastEvent.cause = "type"
  /\ Len(searchQuery) >= 2
  /\ searchTimer = {[query |-> searchQuery, latest |-> TRUE]}

\* C16: a search request that was sent stays in flight until it resolves or
\* rejects (sending another adds one, also for a query already in flight),
\* and a response that arrives becomes the result list, also when a request
\* sent later has resolved before it.
C16_LastResolvedWins ==
  [][LET n == Cardinality(SearchesInFlight)
         m == Cardinality(SearchesInFlight')
     IN /\ lastEvent'.name = "searchSent" => m = n + 1
        /\ lastEvent'.name \in {"searchResolved", "searchRejected"} => m = n - 1
        /\ lastEvent'.name \notin {"searchSent", "searchResolved", "searchRejected"}
             => m = n
        /\ lastEvent'.name = "searchResolved" =>
             searchResults' = lastEvent'.results]_vars

\* C16 witness: of two requests in flight together the one for the older
\* query resolved last, and its response is the result list
C16_OlderQueryResolvedLast ==
  /\ lastEvent.name = "searchResolved"
  /\ lastEvent.op.late
  /\ lastEvent.op.query # searchQuery
  /\ Len(searchQuery) >= 2
  /\ lastEvent.results # << >>
  /\ searchResults = lastEvent.results

\* C17: when the fetch of a search result r selected outside a restore has
\* succeeded, viewLevel is note, selectedCategory and selectedBook are r's,
\* the current note is r, the stack and the search query are empty, and one
\* entry was pushed, which is now the current one and carries those values
\* with an empty noteHistoryIds.
C17_ResultSelected ==
  (lastEvent.name = "resultFetched" /\ ~lastEvent.op.guard) =>
    /\ viewLevel = "note"
    /\ selectedCategory = lastEvent.op.cat
    /\ selectedBook = lastEvent.op.book
    /\ currentNote.id = lastEvent.op.target
    /\ noteHistory = << >>
    /\ searchQuery = << >>
    /\ lastEvent.pushed
    /\ entries[idx] =
         NavEntry(NavigationState("note", lastEvent.op.cat, lastEvent.op.book,
                                  lastEvent.op.target, << >>), TRUE)

\* C18: when the note fetch of a navigation or of a search-result selection
\* has failed, nothing was pushed, noteLoading is false and the stack does
\* not end with the note that is still the current one.
C18_FailedFetchLeavesNothing ==
  lastEvent.name \in {"noteFetchFailed", "resultFetchFailed"} =>
    /\ ~lastEvent.pushed
    /\ ~noteLoading
    /\ (noteHistory # << >> /\ currentNote # NullNote) =>
         noteHistory[Len(noteHistory)].id # currentNote.id

\* C19: noteLoading is true only while a fetch that will clear it is
\* outstanding: that of a book click, a navigation, a selected search
\* result or a restore.
C19_LoadingOnlyWhileFetching ==
  noteLoading =>
    \E i \in 1..Len(ops) : ops[i].kind \in {"book", "nav", "result", "restore"}

\* C20: a reset yields the categories view with no category, no book, no
\* current note, an empty stack and an empty query; and when the last
\* operation that was in flight at the reset completes, the page still
\* shows the categories and has no current note.
C20_ResetHolds ==
  [][/\ lastEvent'.name = "reset" =>
          /\ viewLevel' = "categories"
          /\ selectedCategory' = Null
          /\ selectedBook' = Null
          /\ currentNote' = NullNote
          /\ noteHistory' = << >>
          /\ searchQuery' = << >>
     /\ (lastEvent.cause = "reset" /\ ops # << >> /\ ops' = << >>) =>
          /\ viewLevel' = "categories"
          /\ currentNote' = NullNote]_vars


\* the elements of a finite set of numbers in ascending order
Ascending(S) ==
  [k \in 1..Cardinality(S) |->
     CHOOSE x \in S : Cardinality({y \in S : y < x}) = k - 1]

RECURSIVE Flatten(_)
Flatten(seqs) ==
  IF seqs = << >> THEN << >> ELSE seqs[1] \o Flatten(Tail(seqs))

\* text[i..j] is a wiki-link: [[target]] or [[target|alias]], target and
\* alias non-empty and free of brackets and bars
IsWikiLink(text, i, j) ==
  /\ j >= i + 4
  /\ text[i] = "[" /\ text[i + 1] = "["
  /\ text[j - 1] = "]" /\ text[j] = "]"
  /\ \A k \in (i + 2)..(j - 2) : text[k] \notin {"[", "]"}
  /\ Cardinality({k \in (i + 2)..(j - 2) : text[k] = "|"}) <= 1
  /\ text[i + 2] # "|" /\ text[j - 2] # "|"

\* what a wiki-link text[i..j] is to show and to resolve: the alias when
\* there is one, else the target; and the target
LinkUnit(text, i, j) ==
  LET bars == {k \in (i + 2)..(j - 2) : text[k] = "|"}
      bar == IF bars = {} THEN j - 1 ELSE Least(bars)
  IN [displayText |-> IF bars = {} THEN SubSeq(text, i + 2, j - 2)
                                   ELSE SubSeq(text, bar + 1, j - 2),
      linkTarget |-> SubSeq(text, i + 2, bar - 1)]

\* the wiki-links of a text, in text order
WikiLinks(text) ==
  LET starts == {i \in 1..Len(text) :
                   \E j \in 1..Len(text) : IsWikiLink(text, i, j)}
      order == Ascending(starts)
  IN [n \in 1..Len(order) |->
        LinkUnit(text, order[n],
                 CHOOSE j \in 1..Len(text) : IsWikiLink(text, order[n], j))]

\* the link units of a rendering, in order
LinkUnits(out) ==
  LET buttons(e) ==
        LET at == {k \in 1..Len(out[e].children) :
                     out[e].children[k].type = "button"}
        IN [n \in 1..Cardinality(at) |->
              [displayText |-> out[e].children[Ascending(at)[n]].displayText,
               linkTarget |-> out[e].children[Ascending(at)[n]].linkTarget]]
  IN Flatten([e \in 1..Len(out) |-> buttons(e)])

\* line number i of lines is a fence delimiter
IsFence(lines, i) ==
  /\ Len(lines[i]) >= 3
  /\ \A k \in 1..3 : lines[i][k] = Backtick

\* the fence delimiters before line number i
FencesBefore(lines, i) == {k \in 1..(i - 1) : IsFence(lines, k)}

\* line number i is outside fenced code: no delimiter, and every fence
\* opened before it was closed before it
OutsideCode(lines, i) ==
  ~IsFence(lines, i) /\ Cardinality(FencesBefore(lines, i)) % 2 = 0

\* C21 as stated: a rendered note has one link unit per wiki-link of its
\* text, in text order, showing the alias when there is one and else the
\* target, and a click on a unit calls the resolver with the target.
C21_EveryLinkRendered ==
  /\ rendered.passes = 1 => LinkUnits(rendered.out) = WikiLinks(content)
  /\ lastEvent.name = "linkButtonClick" =>
       /\ lastEvent.op.link = lastEvent.results[1].linkTarget
       /\ \E n \in 1..Len(WikiLinks(content)) :
            /\ WikiLinks(content)[n].linkTarget = lastEvent.op.link
            /\ WikiLinks(content)[n].displayText = lastEvent.results[1].displayText

\* C21 amended: a rendered note has one link unit per wiki-link on its
\* lines outside fenced code (lines that are no fence delimiter and follow
\* an even number of delimiters), in text order, showing the alias when
\* there is one and else the target, and a click on a unit calls the
\* resolver with the target.
C21_LinksOutsideCodeRendered ==
  LET lines == split(content)
      shown == [i \in 1..Len(lines) |->
                  IF OutsideCode(lines, i) THEN WikiLinks(lines[i]) ELSE << >>]
  IN /\ rendered.passes = 1 => LinkUnits(rendered.out) = Flatten(shown)
     /\ lastEvent.name = "linkButtonClick" =>
          /\ lastEvent.op.link = lastEvent.results[1].linkTarget
          /\ \E n \in 1..Len(Flatten(shown)) :
               /\ Flatten(shown)[n].linkTarget = lastEvent.op.link
               /\ Flatten(shown)[n].displayText = lastEvent.results[1].displayText

\* C21 witness: a link with an alias was clicked in a note that has two link
\* units and a further wiki-link inside fenced code
C21_AliasClickedBesideCode ==
  /\ lastEvent.name = "linkButtonClick"
  /\ lastEvent.results[1].displayText # lastEvent.results[1].linkTarget
  /\ Len(LinkUnits(rendered.out)) = 2
  /\ Len(WikiLinks(content)) = 3


\* the form of a line outside code, by the first test that matches, and the
\* number of characters of its marker
FormOf(line) ==
  IF startsWith(line, <<"#", "#", "#", " ">>) THEN [type |-> "h3", marker |-> 4]
  ELSE IF startsWith(line, <<"#", "#", " ">>) THEN [type |-> "h2", marker |-> 3]
  ELSE IF startsWith(line, <<"#", " ">>) THEN [type |-> "h1", marker |-> 2]
  ELSE IF startsWith(line, <<">", " ">>) THEN [type |-> "blockquote", marker |-> 2]
  ELSE IF startsWith(line, <<"-", " ">>) \/ startsWith(line, <<"*", " ">>)
    THEN [type |-> "li", marker |-> 2]
  ELSE IF \E d \in 1..Len(line) :
            /\ \A k \in 1..d : line[k] \in Digits
            /\ startsWith(slice(line, d), <<".", " ">>)
    THEN [type |-> "li decimal",
          marker |-> 2 + Greatest({d \in 1..Len(line) :
                                     \A k \in 1..d : line[k] \in Digits})]
  ELSE IF \A k \in 1..Len(line) : line[k] \in Whitespace
    THEN [type |-> "div", marker |-> Len(line)]
  ELSE [type |-> "p", marker |-> 0]

\* the blocks the lines of a text are to give: one per line outside code,
\* one code block per fence delimiter that closes a fence, in line order
ExpectedBlocks(lines) ==
  LET closing == {i \in 1..Len(lines) :
                    /\ IsFence(lines, i)
                    /\ Cardinality(FencesBefore(lines, i)) % 2 = 1}
      order == Ascending({i \in 1..Len(lines) : OutsideCode(lines, i)}
                           \cup closing)
  IN [n \in 1..Len(order) |->
        IF order[n] \in closing
          THEN [type |-> "pre", key |-> order[n] - 1, children |-> << >>]
          ELSE [type |-> FormOf(lines[order[n]]).type,
                key |-> order[n] - 1,
                children |->
                  IF FormOf(lines[order[n]]).type = "div" THEN << >>
                  ELSE renderInlineContent(
                         slice(lines[order[n]],
                               FormOf(lines[order[n]]).marker))]]

\* form, line and inline content of the blocks of a rendering
BlocksOf(out) ==
  [n \in 1..Len(out) |->
     [type |-> out[n].type, key |-> out[n].key, children |-> out[n].children]]

\* C22 as stated: for every non-empty note text the output is, in input
\* order, one block per line outside fenced code, of the first form that
\* matches in the order heading 3/2/1, blockquote, unordered item, ordered
\* item (number stripped), blank line, paragraph, plus one code block per
\* closed pair of fence delimiters; no line inside an open fence gives a
\* block of its own.
C22_BlockPerLine ==
  (rendered.passes = 1 /\ content # << >>) =>
    BlocksOf(rendered.out) = ExpectedBlocks(split(content))

\* C22 amended: the same for every note text that holds a character other
\* than white space (for a text of white space only the renderer shows the
\* no-content notice instead of blank-line blocks).
C22_BlockPerLineOfText ==
  (rendered.passes = 1 /\ \E k \in 1..Len(content) : content[k] \notin Whitespace) =>
    BlocksOf(rendered.out) = ExpectedBlocks(split(content))

\* C22 witness: a heading line between two fence delimiters came out as the
\* text of one code block and not as a heading
C22_HeadingInsideFence ==
  /\ rendered.passes = 1
  /\ Len(rendered.out) = 1
  /\ rendered.out[1].type = "pre"
  /\ rendered.out[1].code = <<"#", "#", "#", " ", "a", "\n">>


\* the fence delimiters of a list of lines
Fences(lines) == {i \in 1..Len(lines) : IsFence(lines, i)}

\* the lines before the last fence delimiter
BeforeLastFence(lines) == SubSeq(lines, 1, Greatest(Fences(lines)) - 1)

\* C23 as stated: with an odd number of fence delimiters no line after the
\* last delimiter gives a block, and the blocks are those of the text that
\* ends before that delimiter.
C23_AsIfTextEndedThere ==
  (rendered.passes = 1 /\ Cardinality(Fences(split(content))) % 2 = 1) =>
    /\ \A n \in 1..Len(rendered.out) :
         rendered.out[n].key < Greatest(Fences(split(content))) - 1
    /\ rendered.out = NoteContent(join(BeforeLastFence(split(content))))

\* C23 amended: with an odd number of fence delimiters no line after the
\* last delimiter gives a block, and the blocks are those the pass over the
\* lines gives for the lines before that delimiter alone (blank-line blocks
\* when these lines hold white space only, nothing when there are none).
C23_OpenFenceSwallows ==
  (rendered.passes = 1 /\ Cardinality(Fences(split(content))) % 2 = 1) =>
    /\ \A n \in 1..Len(rendered.out) :
         rendered.out[n].key < Greatest(Fences(split(content))) - 1
    /\ rendered.out = elements(BeforeLastFence(split(content)))

\* C23 witness: a heading, then a fence that is never closed, then a line
\* that would be a list item: only the heading is rendered
C23_ItemAfterOpenFenceLost ==
  /\ rendered.passes = 1
  /\ Len(split(content)) = 3
  /\ Fences(split(content)) = {2}
  /\ matchesBullet(split(content)[3])
  /\ Len(rendered.out) = 1
  /\ rendered.out[1].type = "h3"


\* C24: formatText and formatInlineText return a string without "*" and
\* without a backtick unchanged, and so does formatText applied to its own
\* result.
C24_PlainTextUnchanged ==
  (/\ rendered.passes > 0
   /\ \A k \in 1..Len(content) : content[k] \notin {"*", Backtick}) =>
    rendered.out = content

\* C24 witness: a string of letters, blanks and underscores was formatted
\* twice
C24_PlainFormattedTwice ==
  /\ rendered.passes = 2
  /\ Len(content) = MaxChars
  /\ \E k \in 1..Len(content) : content[k] = "_"
  /\ \E k \in 1..Len(content) : content[k] = "a"
  /\ \A k \in 1..Len(content) : content[k] \notin {"*", Backtick}


\* C25: when a book click that put viewLevel to note has run to its end (no
\* root note to fetch, the root note fetched, or its fetch failed), the
\* history stack is empty and the current history entry is a pushed entry
\* of the note view of that book, with the books view in the entry before
\* it, which a back of the platform returns to.
C25_BookClickPushes ==
  (/\ lastEvent.name \in {"bookNoRoot", "bookFetched", "bookFetchFailed"}
   /\ viewLevel = "note") =>
    /\ noteHistory = << >>
    /\ entries[idx].kind = "nav"
    /\ entries[idx].pushed
    /\ entries[idx].notesNav.viewLevel = "note"
    /\ entries[idx].notesNav.selectedBook = selectedBook
    /\ idx > 1
    /\ entries[idx - 1].notesNav.viewLevel = "books"


C27_ResetLeavesHistory ==
  [][lastEvent'.name = "reset" =>
       /\ entries' = entries
       /\ idx' = idx
       /\ urlHasParam' = urlHasParam
       /\ viewLevel' = "categories"
       /\ selectedCategory' = Null
       /\ selectedBook' = Null
       /\ currentNote' = NullNote
       /\ noteHistory' = << >>
       /\ searchQuery' = << >>]_vars

\* C27 witness: the reset ran while the current history entry was a pushed
\* note entry, which is still current
C27_ResetOnNoteEntry ==
  /\ lastEvent.name = "reset"
  /\ viewLevel = "categories"
  /\ entries[idx].pushed
  /\ entries[idx].notesNav.viewLevel = "note"


\* C28: in every state of the mounted notes browser, viewLevel books or
\* note comes with a selected category.
C28_LevelHasCategory ==
  (mounted /\ viewLevel \in {"books", "note"}) => selectedCategory # Null


\* C28 witness: a root note's fetch completed after the view had gone back
\* to the books of the category
C28_FetchedInBooksView ==
  /\ lastEvent.name = "bookFetched"
  /\ viewLevel = "books"
  /\ selectedCategory = "Science"
  /\ currentNote # NullNote


\* nothing is in flight: no fetch, no restore, no effect waiting to run
Quiescent == mounted /\ ops = << >> /\ ~isRestoringState /\ effects = {}

\* C29: in every quiescent state with viewLevel note and a current note,
\* the state stored in the current history entry has the current note's id
\* as noteId and the ids of the in-memory stack, in order, as
\* noteHistoryIds.
C29_EntryAgreesWithMemory ==
  (Quiescent /\ viewLevel = "note" /\ currentNote # NullNote) =>
    /\ entries[idx].notesNav.noteId = currentNote.id
    /\ entries[idx].notesNav.noteHistoryIds = Ids(noteHistory)


\* C30: the reset effect resets the view only when the URL's search
\* parameters changed; the page never changes its URL, so no run of the
\* effect that follows a change of the guard flag changes the view: not
\* while a restore is in progress, and not when the restore has ended and
\* the flag went back to false.
C30_EffectKeepsRestoredView ==
  [][lastEvent'.name = "resetEffect" => MemState' = MemState]_vars

====
